---- MODULE Spec2Model ----
(***************************************************************************)
(* Model of the stockrhythm backend session engine                         *)
(* (apps/backend/src/main.py websocket_endpoint), the universe manager     *)
(* (apps/backend/src/universe_manager.py), the Mock provider               *)
(* (apps/backend/src/providers/mock.py), the paper fill store              *)
(* (apps/backend/src/paper_engine.py), the token store, the Upstox OAuth   *)
(* endpoints of main.py, the polling streams of the Kotak and Upstox       *)
(* providers, the interval normalisation of the Upstox provider and the    *)
(* matching engine of the mock exchange                                    *)
(* (apps/mock_exchange/src/engine.py).                                     *)
(*                                                                         *)
(* One client session is modelled.  Its three asyncio tasks (reader, tick  *)
(* pump, universe manager) are interleaved at the awaits that can really   *)
(* suspend: the inbound-frame await, websocket sends and asyncio.sleep.    *)
(* Code between two such awaits runs atomically, as under the asyncio      *)
(* scheduler.  Task.cancel() makes the next resumption of the task raise   *)
(* CancelledError, which neither loop catches.                             *)
(***************************************************************************)
EXTENDS Integers, Sequences, FiniteSets, TLC

VARIABLES
    reader,            \* position of websocket_endpoint's message loop
    nframes,           \* number of client frames consumed so far
    lastFrame,         \* the frame the latest step consumed, NoFrame if none
    lastConfigure,     \* paper_trade field of the latest configure (history)
    superseded,        \* managers that were running when a configure with a
                       \* filter, or with a static subscribe list, was consumed
                       \* (history)
    is_paper_trading,  \* main.py:198
    protocol_version,  \* main.py:199
    universe_task,     \* main.py:200, 0 is None, else the id of a manager task
    managers,          \* the UniverseManager tasks created so far
    tick_task,         \* main.py:201, position of tick_stream_loop
    batch,             \* symbols the Mock stream still has to yield in this batch
    subs,              \* MockProvider._subscriptions
    prices,            \* MockProvider._prices, with base_price for missing keys
    wire,              \* messages sent to the client, in send order
    orders,            \* rows of the paper store's orders table
    trades,            \* rows of the paper store's trades table
    conns,             \* execute_order calls of the store's writers, each on
                       \* its own sqlite connection
    returned,          \* order ids execute_order returned, in return order
    now,               \* time.time(), in half seconds
    upstox_tokens,     \* the token store's table: None or its single row
    saved,             \* the latest save_upstox_token call (history)
    got,               \* what the latest get_valid_upstox_token returned
    sessions,          \* set-up and teardown of the server's client sessions
    oauth_states,      \* main.py:73 _UPSTOX_OAUTH_STATES: state -> expiry
    issued,            \* every state the auth endpoint issued, with its time
                       \* of issue (history)
    used,              \* the states a callback got through with (history)
    callbacks,         \* the OAuth callbacks that went on to the token
                       \* exchange, each with the point it has reached
    poll,              \* a polling provider's stream() and the pump reading it
    resolved,          \* a universe manager's spec and provider, with the
                       \* latest call of UniverseResolver.resolve and its result
    mocks,             \* two MockProvider objects and the ticks their streams
                       \* have yielded
    backtest,          \* a call of UpstoxProvider.historical: its interval,
                       \* the segment made of it and the requests sent
    mgr,               \* a UniverseManager whose owner calls stop(): the
                       \* position of run(), the flag and what it has emitted
    upstox,            \* an UpstoxProvider and its connect(): where the token
                       \* came from and what the store gave back afterwards
    mstream,           \* a MockProvider's stream() under set_subscriptions:
                       \* its batches and the ticks it has yielded
    engine             \* the mock exchange's MatchingEngine: its book, and
                       \* the latest order with the book it met

\* the OAuth endpoints
oauthVars == <<oauth_states, issued, used, callbacks>>

\* the components that are run on their own
unitVars == <<mgr, upstox, mstream, engine>>

\* the components outside the session engine, the stores and the listener
serviceVars == <<oauthVars, poll, resolved, mocks, backtest, unitVars>>

\* what the session engine's own steps leave alone
beyondSession == <<conns, returned, now, upstox_tokens, saved, got, sessions,
                   serviceVars>>

vars == <<reader, nframes, lastFrame, lastConfigure, superseded,
          is_paper_trading, protocol_version, universe_task, managers, tick_task,
          batch, subs,
          prices, wire, orders, trades, beyondSession>>

----------------------------------------------------------------------------
(* Bounds *)

MaxFrames == 2
MaxTicks == 1
MaxManagers == 2
MaxPumpTicks == 3
MaxWriters == 2
MaxCalls == 3
MaxClock == 5
MaxLifetime == 2
MaxClients == 2
MaxServed == 1
MaxStates == 2
MaxCallbacks == 1
MaxSkew == 1
MaxPolls == 3
MaxQuotes == 2
MaxSince == 4
MaxSymbols == 2
MaxSeed == 1
MaxIntervals == 2
MaxLag == 1
MaxDigits == 2
MaxBacktests == 1
MaxRounds == 2
MaxBatches == 2
MaxSets == 2
\* orders posted to the mock exchange
MaxOrders == 3

----------------------------------------------------------------------------
(* Values *)

None == <<>>
Some(x) == <<x>>

\* Python's string order on the symbols used: upper case sorts before lower.
SymOrder == <<"AAA", "MOCK", "nse_cm|111">>

Symbols == {SymOrder[i] : i \in 1..Len(SymOrder)}

Rank(s) == CHOOSE i \in 1..Len(SymOrder) : SymOrder[i] = s

SeqToSet(q) == {q[i] : i \in 1..Len(q)}

RECURSIVE Insert(_, _)
Insert(x, q) ==
    IF q = <<>> THEN <<x>>
    ELSE IF Rank(x) < Rank(Head(q)) THEN <<x>> \o q
    ELSE <<Head(q)>> \o Insert(x, Tail(q))

RECURSIVE SortedList(_)
SortedList(q) == IF q = <<>> THEN <<>> ELSE Insert(Head(q), SortedList(Tail(q)))

RECURSIVE SortedSet(_)
SortedSet(S) ==
    IF S = {} THEN <<>>
    ELSE LET m == CHOOSE x \in S : \A y \in S : Rank(x) <= Rank(y)
         IN <<m>> \o SortedSet(S \ {m})

Prefix(q, n) == SubSeq(q, 1, IF Len(q) < n THEN Len(q) ELSE n)

----------------------------------------------------------------------------
(* Mock provider *)

base_price == 100

MockSymbols == <<"MOCK">>

PriceLevels == {base_price, base_price + 1}

snapshot(symbols) == [s \in SeqToSet(symbols) |-> [last_price |-> prices[s]]]

----------------------------------------------------------------------------
(* Instrument master and universe resolver *)

SymbolMap == [s \in {"AAA"} |-> "nse_cm|111"]

MasterResolve(sym) == IF sym \in DOMAIN SymbolMap THEN Some(SymbolMap[sym]) ELSE None

_passes(value, op, target) ==
    CASE op = "eq" -> value = target
      [] op = "ne" -> value # target
      [] op = "gt" -> value > target
      [] op = "gte" -> value >= target
      [] op = "lt" -> value < target
      [] op = "lte" -> value <= target
      [] op = "in" -> value \in SeqToSet(target)
      [] op = "not_in" -> value \notin SeqToSet(target)
      [] op = "between" -> target[1] <= value /\ value <= target[2]
      [] OTHER -> FALSE

\* universe_manager.py:19-20: lo, hi = target raises unless target has two
\* elements
PassesRaises(value, op, target) == op = "between" /\ Len(target) # 2

\* The filter payloads a client sends, by name.
FilterSpecs ==
    [F1 |-> [candidates |-> [type |-> "watchlist", symbols |-> <<"MOCK", "AAA">>],
             conditions |-> <<>>, max_symbols |-> 50, refresh_seconds |-> 0],
     F2 |-> [candidates |-> [type |-> "watchlist", symbols |-> <<"AAA", "MOCK">>],
             conditions |-> <<[field |-> "last_price", op |-> "lte", value |-> 100]>>,
             max_symbols |-> 50, refresh_seconds |-> 60],
     F3 |-> [candidates |-> [type |-> "watchlist", symbols |-> <<"MOCK">>],
             conditions |-> <<[field |-> "last_price", op |-> "between",
                               value |-> <<100>>]>>,
             max_symbols |-> 50, refresh_seconds |-> 60]]

RECURSIVE WatchlistTokens(_)
WatchlistTokens(raw) ==
    IF raw = <<>> THEN <<>>
    ELSE LET token == MasterResolve(Head(raw))
         IN <<IF token # None THEN token[1] ELSE Head(raw)>>
                \o WatchlistTokens(Tail(raw))

candidates(spec) ==
    CASE spec.candidates.type = "watchlist" ->
             WatchlistTokens(spec.candidates.symbols)
      [] spec.candidates.type = "index" -> <<"NSE_CM|123", "NSE_CM|456">>
      [] spec.candidates.type = "instrument_master" -> <<"NSE_CM|111", "NSE_CM|222">>
      [] OTHER -> <<>>

RowOk(row, conds) ==
    \A i \in 1..Len(conds) :
        /\ conds[i].field \in DOMAIN row
        /\ _passes(row[conds[i].field], conds[i].op, conds[i].value)

RECURSIVE Select(_, _, _)
Select(base, snap, conds) ==
    IF base = <<>> THEN <<>>
    ELSE (IF Head(base) \in DOMAIN snap /\ RowOk(snap[Head(base)], conds)
          THEN <<Head(base)>> ELSE <<>>) \o Select(Tail(base), snap, conds)

\* universe_manager.py:81-85: the conditions are evaluated in order up to the
\* first that fails; evaluating one may raise
RowRaises(row, conds) ==
    \E i \in 1..Len(conds) :
        /\ conds[i].field \in DOMAIN row
        /\ PassesRaises(row[conds[i].field], conds[i].op, conds[i].value)
        /\ \A j \in 1..(i - 1) :
              /\ conds[j].field \in DOMAIN row
              /\ _passes(row[conds[j].field], conds[j].op, conds[j].value)

\* universe_manager.py:65-90: resolve raises instead of returning a list
ResolveRaises(spec) ==
    LET base == candidates(spec)
        snap == snapshot(base)
    IN /\ spec.conditions # <<>>
       /\ \E k \in 1..Len(base) :
             base[k] \in DOMAIN snap /\ RowRaises(snap[base[k]], spec.conditions)

resolve(spec) ==
    LET base == candidates(spec)
    IN IF spec.conditions = <<>> THEN Prefix(base, spec.max_symbols)
       ELSE Prefix(Select(base, snapshot(base), spec.conditions), spec.max_symbols)

----------------------------------------------------------------------------
(* Client frames *)

GoodOrder == [symbol |-> "R", qty |-> 5, side |-> "BUY", type |-> "MARKET",
              limit_price |-> None]
LimitOrder == [symbol |-> "R", qty |-> 2, side |-> "SELL", type |-> "LIMIT",
               limit_price |-> Some(7)]
BadOrder == [symbol |-> "R", qty |-> 5, side |-> "HOLD", type |-> "MARKET",
             limit_price |-> None]

NoFrame == [kind |-> "none", shape |-> "v2", pv |-> 0, paper |-> "absent",
            subscribe |-> None, filter |-> "none", data |-> None, flat |-> None]

\* shape: "v2" when the message has a dict under "data", else "v1".
\* pv: 0 when protocol_version is missing.  filter: "none" when missing or null,
\* "empty" for {}, "bad" for a payload UniverseFilterSpec rejects.  The
\* handling of a filter does not read protocol_version, and the v1 shape
\* ignores the field: those frames carry version 2 only.
ConfigureFrames ==
    {[NoFrame EXCEPT !.kind = "configure", !.shape = "v2", !.pv = pv,
                     !.subscribe = sf[1], !.filter = sf[2]] :
        pv \in {0, 2},
        sf \in ({None, Some(<<>>), Some(<<"MOCK">>), Some(<<"MOCK", "AAA">>)}
                    \X {"none"})
               \cup ({None} \X {"empty", "F1"})}
    \cup
    {[NoFrame EXCEPT !.kind = "configure", !.shape = "v2", !.pv = 2,
                     !.subscribe = sf[1], !.filter = sf[2]] :
        sf \in ({None} \X {"bad", "F2", "F3"})
               \cup ({Some(<<"MOCK">>)} \X {"empty", "F1"})}
    \cup
    {[NoFrame EXCEPT !.kind = "configure", !.shape = sh, !.paper = pt] :
        sh \in {"v1", "v2"}, pt \in {"true", "false"}}
    \cup
    {[NoFrame EXCEPT !.kind = "configure", !.shape = "v1", !.pv = 2,
                     !.subscribe = sf[1], !.filter = sf[2]] :
        sf \in {<<None, "none">>, <<Some(<<"MOCK">>), "none">>, <<None, "F1">>}}

\* data: the dict under "data"; flat: order fields at the top level.
OrderFrames ==
    {[NoFrame EXCEPT !.kind = "order", !.shape = "v2", !.data = Some(p)] :
        p \in {GoodOrder, LimitOrder, BadOrder}}
    \cup {[NoFrame EXCEPT !.kind = "order", !.shape = "v1", !.flat = Some(p)] :
        p \in {GoodOrder, BadOrder}}
    \cup {[NoFrame EXCEPT !.kind = "order", !.shape = "v1"]}

\* badjson: json.loads raises JSONDecodeError; nonobject: a JSON value that is
\* not an object; unknown: an object whose action is neither configure nor order.
OtherFrames ==
    {[NoFrame EXCEPT !.kind = k] : k \in {"badjson", "nonobject", "unknown"}}

Frames == ConfigureFrames \cup OrderFrames \cup OtherFrames

----------------------------------------------------------------------------
(* Values of the paper fill store, the token store and the listener *)

\* processes (or sessions) that call execute_order on one database file
Writers == 1..MaxWriters

\* a writer outside execute_order; last is how its latest call ended
IdleConn(last) ==
    [pc |-> "idle", order |-> None, order_row |-> None, trade_row |-> None,
     last |-> last]

\* no get_valid_upstox_token call since the clock or the table last changed
Unset == <<"unset">>

Clients == 1..MaxClients

\* a client that has not connected yet
NoSession ==
    [stage |-> "idle", kind |-> "none", client |-> "none", sent |-> <<>>,
     served |-> 0]

\* no Mock provider has been constructed for the comparison yet
NoMocks == [built |-> FALSE]

\* no historical request is being served
NoBacktest ==
    [pc |-> "idle", interval |-> None, segment |-> None, left |-> 0,
     urls |-> <<>>, calls |-> 0]

\* no Mock provider has been constructed for the stream yet
NoStream ==
    [pc |-> "none", subs |-> <<>>, latest |-> <<>>, since |-> 0,
     batch |-> <<>>, n |-> 0, begun |-> <<>>, out |-> <<>>, sets |-> 0]

\* engine.py:27-31 and server.py:7: the engine as constructed, with the
\* books of the one symbol the orders name.  order, fills, met_bids and
\* met_asks are history: the latest order as posted, what place_order
\* returned for it, and the book it met.
NewEngine ==
    [bids |-> <<>>, asks |-> <<>>, placed |-> 0,
     order |-> [id |-> 0, qty |-> 0, side |-> "BUY", limit_price |-> 0],
     fills |-> <<>>, met_bids |-> <<>>, met_asks |-> <<>>]

\* no Upstox provider has been constructed yet
NoUpstox ==
    [pc |-> "none", access_token |-> "", explicit |-> "", store |-> FALSE,
     creds |-> FALSE, table |-> None, began |-> 0, posts |-> 0,
     answer |-> "none", path |-> "none", readback |-> None]

\* no stoppable universe manager has been constructed yet
NoMgr ==
    [pc |-> "none", running |-> FALSE, stopped |-> FALSE, at |-> "none",
     current |-> {}, new |-> <<>>, subs |-> <<"MOCK">>, rounds |-> 0,
     late |-> 0, again |-> FALSE]

\* no universe manager has been constructed for the resolver yet
NoManager == [loop |-> "none"]

\* no session has started the stream of its polling provider yet
NoPoll ==
    [kind |-> "none", pc |-> "none", subscribed |-> FALSE, outcome |-> "none",
     since |-> 0, requests |-> 0, pending |-> 0, failed |-> FALSE,
     delivered |-> 0, cancel |-> FALSE]

----------------------------------------------------------------------------
(* State after construction: main.py:193-201 for the session; an empty paper *)
(* store and token store (their _init_db), no client connected               *)

Init ==
    /\ reader = "recv"
    /\ nframes = 0
    /\ lastFrame = NoFrame
    /\ lastConfigure = "none"
    /\ superseded = [filter |-> {}, replaced |-> {}, static |-> {}]
    /\ is_paper_trading = TRUE
    /\ protocol_version = 1
    /\ universe_task = 0
    /\ managers = <<>>
    /\ tick_task = "none"
    /\ batch = <<>>
    /\ subs = MockSymbols
    /\ prices = [s \in Symbols |-> base_price]
    /\ wire = <<>>
    /\ orders = <<>>
    /\ trades = <<>>
    /\ conns = [w \in Writers |-> IdleConn("none")]
    /\ returned = <<>>
    /\ now = 0
    /\ upstox_tokens = None
    /\ saved = None
    /\ got = Unset
    /\ sessions = [c \in Clients |-> NoSession]
    /\ oauth_states = {}
    /\ issued = <<>>
    /\ used = {}
    /\ callbacks = <<>>
    /\ poll = NoPoll
    /\ resolved = NoManager
    /\ mocks = NoMocks
    /\ backtest = NoBacktest
    /\ mgr = NoMgr
    /\ upstox = NoUpstox
    /\ mstream = NoStream
    /\ engine = NewEngine

----------------------------------------------------------------------------
(* Task handling *)

\* variant: cancel() has no effect on the task
CancelKeepsRunning(pc) == pc

\* Task.cancel(): a task that has not finished gets CancelledError at its
\* current await and never runs another step.
Cancel(pc) == IF pc \in {"created", "sending", "sleeping"} THEN "cancelled" ELSE pc

\* variant: the previous universe task is not cancelled
CancelUniverseSkipped(ms, ut) == ms

\* main.py:258-259 and 304-305: if universe_task: universe_task.cancel()
CancelUniverse(ms, ut) == IF ut # 0 THEN [ms EXCEPT ![ut].pc = Cancel(@)] ELSE ms

\* variant: the tick task is left running on teardown
CancelTickSkipped(t) == t

\* main.py:306-307: if tick_task: tick_task.cancel()
CancelTick(t) == IF t # "none" THEN Cancel(t) ELSE t

\* variant: the pump is not started
StartTickNever(t) == t

\* main.py:278-279: if not tick_task: tick_task = asyncio.create_task(...)
StartTick(t) == IF t = "none" THEN "created" ELSE t

\* UniverseManager.__init__ followed by asyncio.create_task(manager.run())
NewManager(name) == [pc |-> "created", current |-> {}, spec |-> name]

Active(m) == m.pc \in {"created", "sending", "sleeping"}

----------------------------------------------------------------------------
(* Reader: the message loop of websocket_endpoint *)

\* variant: the v1 shape looks for paper_trade under data and finds none
ConfigFieldsFlatPaperLost(f) ==
    IF f.shape = "v2"
    THEN [pv |-> IF f.pv = 0 THEN 1 ELSE f.pv, paper |-> f.paper # "false",
          subscribe |-> f.subscribe, filter |-> f.filter]
    ELSE [pv |-> 1, paper |-> TRUE,
          subscribe |-> f.subscribe, filter |-> "none"]

\* main.py:234-247
ConfigFields(f) ==
    IF f.shape = "v2"
    THEN [pv |-> IF f.pv = 0 THEN 1 ELSE f.pv, paper |-> f.paper # "false",
          subscribe |-> f.subscribe, filter |-> f.filter]
    ELSE [pv |-> 1, paper |-> f.paper # "false",
          subscribe |-> f.subscribe, filter |-> "none"]

\* main.py:251: if filter_payload
FilterTruthy(fl) == fl \notin {"none", "empty"}

\* main.py:252: UniverseFilterSpec(**filter_payload) accepts the payload
FilterValid(fl) == fl \in DOMAIN FilterSpecs

\* main.py:261: elif subscribe_symbols
SubscribeTruthy(sb) == sb # None /\ sb[1] # <<>>

\* main.py:265-275
StaticUpdate(symbols) ==
    [action |-> "universe", added |-> symbols, removed |-> <<>>,
     universe |-> symbols, reason |-> "static_subscribe", by |-> 0]

\* main.py:283-290
OrderData(f) == IF f.data # None THEN f.data ELSE f.flat

\* main.py:293: OrderModel(**order_data) accepts the payload
OrderModelValid(p) == p.side \in {"BUY", "SELL"} /\ p.type \in {"MARKET", "LIMIT"}

\* paper_engine.py:54-58
OrderRow(rows, order) ==
    [id |-> Len(rows) + 1, symbol |-> order.symbol, qty |-> order.qty,
     side |-> order.side, type |-> order.type, limit_price |-> order.limit_price,
     status |-> "FILLED"]

\* paper_engine.py:63-66
TradeRow(rows, order_id, order) ==
    [id |-> Len(rows) + 1, order_id |-> order_id, symbol |-> order.symbol,
     qty |-> order.qty,
     price |-> IF order.limit_price # None THEN order.limit_price[1] ELSE 0]

\* variant: the order is persisted whatever the flag
PaperBranchAlways(flag) == TRUE

\* main.py:294: if is_paper_trading
PaperBranch(flag) == flag

\* main.py:299-307: the loop ends and the finally block cancels both tasks
Teardown ==
    /\ reader' = "closed"
    /\ managers' = CancelUniverse(managers, universe_task)
    /\ tick_task' = CancelTick(tick_task)

\* variant: JSONDecodeError is not caught
RaisesOnBadJson(kind) == kind \in {"nonobject", "badjson"}

\* main.py:224-229: json.loads raising JSONDecodeError is caught and the frame
\* skipped; a JSON value that is not an object makes message.get raise
Raises(kind) == kind = "nonobject"

\* main.py:222-232, 281: a frame that is neither configure nor order
RecvOther(f) ==
    /\ f \in OtherFrames
    /\ IF Raises(f.kind)
       THEN Teardown
       ELSE UNCHANGED <<reader, managers, tick_task>>
    /\ UNCHANGED <<lastConfigure, superseded, is_paper_trading, protocol_version,
                   universe_task, batch, subs, prices, wire, orders, trades>>

\* the manager task the session holds, if it has not finished
Running ==
    IF universe_task # 0 /\ Active(managers[universe_task])
    THEN {universe_task} ELSE {}

\* the message has a filter object, in either shape
CarriesFilter(f) == f.kind = "configure" /\ f.filter # "none"

\* the message has a non-empty filter object under data
CarriesDataFilter(f) ==
    f.kind = "configure" /\ f.shape = "v2" /\ f.filter \notin {"none", "empty"}

\* the message has a non-empty subscribe list and no filter
CarriesStaticOnly(f) ==
    f.kind = "configure" /\ f.filter = "none" /\ f.subscribe # None
    /\ f.subscribe[1] # <<>>

\* main.py:232-279
RecvConfigure(f) ==
    /\ f.kind = "configure"
    /\ LET c == ConfigFields(f) IN
       /\ lastConfigure' = f.paper
       /\ superseded' =
            [filter |-> superseded.filter \cup
                        (IF CarriesFilter(f) THEN Running ELSE {}),
             replaced |-> superseded.replaced \cup
                        (IF CarriesDataFilter(f) THEN Running ELSE {}),
             static |-> superseded.static \cup
                        (IF CarriesStaticOnly(f) THEN Running ELSE {})]
       /\ protocol_version' = c.pv
       /\ is_paper_trading' = c.paper
       /\ IF FilterTruthy(c.filter)
          THEN IF ~FilterValid(c.filter)
               THEN /\ Teardown
                    /\ UNCHANGED <<universe_task, subs, wire>>
               ELSE /\ Len(managers) < MaxManagers
                    /\ managers' = Append(CancelUniverse(managers, universe_task),
                                          NewManager(c.filter))
                    /\ universe_task' = Len(managers) + 1
                    /\ tick_task' = StartTick(tick_task)
                    /\ UNCHANGED <<reader, subs, wire>>
          ELSE IF SubscribeTruthy(c.subscribe)
               THEN /\ subs' = c.subscribe[1]
                    /\ IF c.pv >= 2
                       THEN /\ wire' = Append(wire, StaticUpdate(c.subscribe[1]))
                            /\ reader' = "static_send"
                            /\ UNCHANGED tick_task
                       ELSE /\ tick_task' = StartTick(tick_task)
                            /\ UNCHANGED <<reader, wire>>
                    /\ UNCHANGED <<universe_task, managers>>
               ELSE /\ tick_task' = StartTick(tick_task)
                    /\ UNCHANGED <<reader, universe_task, managers, subs, wire>>
    /\ UNCHANGED <<batch, prices, orders, trades>>

\* main.py:281-297 with PaperEngine.execute_order (paper_engine.py:46-72)
RecvOrder(f) ==
    /\ f \in OrderFrames
    /\ LET od == OrderData(f) IN
       IF od = None
       THEN UNCHANGED <<reader, managers, tick_task, orders, trades>>
       ELSE IF ~OrderModelValid(od[1])
       THEN Teardown /\ UNCHANGED <<orders, trades>>
       ELSE IF PaperBranch(is_paper_trading)
       THEN /\ orders' = Append(orders, OrderRow(orders, od[1]))
            /\ trades' = Append(trades, TradeRow(trades, Len(orders) + 1, od[1]))
            /\ UNCHANGED <<reader, managers, tick_task>>
       ELSE UNCHANGED <<reader, managers, tick_task, orders, trades>>
    /\ UNCHANGED <<lastConfigure, superseded, is_paper_trading, protocol_version,
                   universe_task, batch, subs, prices, wire>>

\* main.py:222: one iteration of async for raw_message in websocket.iter_text(),
\* the client's frame being one of alphabet
RecvFrom(alphabet) ==
    /\ reader = "recv"
    /\ UNCHANGED beyondSession
    /\ nframes < MaxFrames
    /\ \E f \in alphabet :
        /\ nframes' = nframes + 1
        /\ lastFrame' = f
        /\ \/ RecvOther(f)
           \/ RecvConfigure(f)
           \/ RecvOrder(f)

Recv == RecvFrom(Frames)

\* main.py:265-279: the send of the static snapshot returns
StaticSendReturn ==
    /\ lastFrame' = NoFrame
    /\ UNCHANGED beyondSession
    /\ reader = "static_send"
    /\ reader' = "recv"
    /\ tick_task' = StartTick(tick_task)
    /\ UNCHANGED <<nframes, lastConfigure, superseded, is_paper_trading,
                   protocol_version, universe_task, managers, batch, subs, prices,
                   wire, orders, trades>>

\* main.py:299-307: the client goes away while the reader awaits
Disconnect ==
    /\ lastFrame' = NoFrame
    /\ UNCHANGED beyondSession
    /\ reader \in {"recv", "static_send"}
    /\ Teardown
    /\ UNCHANGED <<nframes, lastConfigure, superseded, is_paper_trading,
                   protocol_version, universe_task, batch, subs, prices, wire,
                   orders, trades>>

----------------------------------------------------------------------------
(* Universe manager: UniverseManager.run *)

\* variant: removed symbols are not reported
DiffNoRemoved(current, new_set) ==
    [added |-> SortedSet(new_set \ current),
     removed |-> <<>>,
     changed |-> (new_set \ current) # {} \/ (current \ new_set) # {}]

\* variant: every iteration counts as a change
DiffAlwaysChanged(current, new_set) ==
    [added |-> SortedSet(new_set \ current),
     removed |-> SortedSet(current \ new_set),
     changed |-> TRUE]

\* universe_manager.py:118-120
Diff(current, new_set) ==
    [added |-> SortedSet(new_set \ current),
     removed |-> SortedSet(current \ new_set),
     changed |-> (new_set \ current) # {} \/ (current \ new_set) # {}]

\* variant: the update is built from the set before the refresh
RefreshUpdateStale(d, current, m) ==
    [action |-> "universe", added |-> d.added, removed |-> d.removed,
     universe |-> SortedSet((current \ SeqToSet(d.added)) \cup SeqToSet(d.removed)),
     reason |-> "filter_refresh", by |-> m]

\* universe_manager.py:126-135
RefreshUpdate(d, current, m) ==
    [action |-> "universe", added |-> d.added, removed |-> d.removed,
     universe |-> SortedSet(current), reason |-> "filter_refresh", by |-> m]

\* universe_manager.py:113-135: the task starts, or wakes from its sleep, and
\* runs one iteration up to the await of send_json (resolve, snapshot and
\* set_subscriptions do not suspend on the providers of this repository).
\* run() catches nothing: an exception raised by resolve ends the task.
ManagerIterate(m) ==
    /\ lastFrame' = NoFrame
    /\ UNCHANGED beyondSession
    /\ managers[m].pc \in {"created", "sleeping"}
    /\ LET new_set == SeqToSet(resolve(FilterSpecs[managers[m].spec]))
           d == Diff(managers[m].current, new_set)
       IN IF ResolveRaises(FilterSpecs[managers[m].spec])
          THEN /\ managers' = [managers EXCEPT ![m].pc = "failed"]
               /\ UNCHANGED <<subs, wire>>
          ELSE IF d.changed
          THEN /\ managers' = [managers EXCEPT ![m].current = new_set,
                                               ![m].pc = "sending"]
               /\ subs' = SortedSet(new_set)
               /\ wire' = Append(wire, RefreshUpdate(d, new_set, m))
          ELSE /\ managers[m].pc = "created"
               /\ managers' = [managers EXCEPT ![m].pc = "sleeping"]
               /\ UNCHANGED <<subs, wire>>
    /\ UNCHANGED <<reader, nframes, lastConfigure, superseded, is_paper_trading,
                   protocol_version, universe_task, tick_task, batch, prices,
                   orders, trades>>

\* universe_manager.py:135-137: send_json returns and the manager sleeps
ManagerSendReturn(m) ==
    /\ lastFrame' = NoFrame
    /\ UNCHANGED beyondSession
    /\ managers[m].pc = "sending"
    /\ managers' = [managers EXCEPT ![m].pc = "sleeping"]
    /\ UNCHANGED <<reader, nframes, lastConfigure, superseded, is_paper_trading,
                   protocol_version, universe_task, tick_task, batch, subs, prices,
                   wire, orders, trades>>

----------------------------------------------------------------------------
(* Tick pump: tick_stream_loop over MockProvider.stream *)

\* variant: the wrapper is never applied
TickMessageAlwaysBare(tick, version) ==
    [action |-> "bare", symbol |-> tick.symbol, provider |-> "mock",
     timestamp |-> tick.timestamp]

\* main.py:212-217
TickMessage(tick, version) ==
    IF version >= 2
    THEN [action |-> "tick", symbol |-> tick.symbol, provider |-> "mock",
          timestamp |-> tick.timestamp]
    ELSE [action |-> "bare", symbol |-> tick.symbol, provider |-> "mock",
          timestamp |-> tick.timestamp]

\* the number of ticks sent so far
TicksSent(w) == Cardinality({i \in 1..Len(w) : w[i].action \in {"tick", "bare"}})

\* mock.py:56-62: the Tick the stream yields; datetime.now() is the ordinal of
\* the yield, every tick yielded so far having been handed to a send
Tick(symbol) == [symbol |-> symbol, timestamp |-> TicksSent(wire) + 1]

\* variant: the tick is sent in both shapes
PumpSendBoth(w, tick, version) ==
    w \o <<TickMessage(tick, 2), TickMessage(tick, 1)>>

\* main.py:212-217: the pump sends the tick it was handed
PumpSend(w, tick, version) == Append(w, TickMessage(tick, version))

\* mock.py:47-62 and main.py:209-217: the stream yields the next tick of the
\* batch, moving the symbol's price, and the pump sends it
Yield(rest, limit) ==
    /\ TicksSent(wire) < limit
    /\ \E p \in PriceLevels : prices' = [prices EXCEPT ![Head(rest)] = p]
    /\ wire' = PumpSend(wire, Tick(Head(rest)), protocol_version)
    /\ batch' = Tail(rest)
    /\ tick_task' = "sending"

\* main.py:207-209, mock.py:43-46: the task starts and sleeps one interval
TickStart ==
    /\ lastFrame' = NoFrame
    /\ UNCHANGED beyondSession
    /\ tick_task = "created"
    /\ tick_task' = "sleeping"
    /\ UNCHANGED <<reader, nframes, lastConfigure, superseded, is_paper_trading,
                   protocol_version, universe_task, managers, batch, subs, prices,
                   wire, orders, trades>>

\* mock.py:46-47: the interval ends and a batch over sorted(_subscriptions)
\* begins; limit bounds the ticks of a run
TickWakeWithin(limit) ==
    /\ lastFrame' = NoFrame
    /\ UNCHANGED beyondSession
    /\ tick_task = "sleeping"
    /\ subs # <<>>
    /\ Yield(SortedList(subs), limit)
    /\ UNCHANGED <<reader, nframes, lastConfigure, superseded, is_paper_trading,
                   protocol_version, universe_task, managers, subs, orders, trades>>

\* main.py:215-217: the send returns; the stream yields the next tick of the
\* batch or, the batch being over, sleeps
TickSendReturnWithin(limit) ==
    /\ lastFrame' = NoFrame
    /\ UNCHANGED beyondSession
    /\ tick_task = "sending"
    /\ IF batch # <<>>
       THEN Yield(batch, limit)
       ELSE /\ tick_task' = "sleeping"
            /\ UNCHANGED <<batch, prices, wire>>
    /\ UNCHANGED <<reader, nframes, lastConfigure, superseded, is_paper_trading,
                   protocol_version, universe_task, managers, subs, orders, trades>>

TickWake == TickWakeWithin(MaxTicks)

TickSendReturn == TickSendReturnWithin(MaxTicks)

\* main.py:215-219: the send raises; the loop's except clause ends the task
TickSendFails ==
    /\ lastFrame' = NoFrame
    /\ UNCHANGED beyondSession
    /\ tick_task = "sending"
    /\ tick_task' = "failed"
    /\ UNCHANGED <<reader, nframes, lastConfigure, superseded, is_paper_trading,
                   protocol_version, universe_task, managers, batch, subs, prices,
                   wire, orders, trades>>

----------------------------------------------------------------------------

Next ==
    \/ Recv
    \/ StaticSendReturn
    \/ Disconnect
    \/ \E m \in 1..Len(managers) : ManagerIterate(m)
    \/ \E m \in 1..Len(managers) : ManagerSendReturn(m)
    \/ TickStart
    \/ TickWake
    \/ TickSendReturn
    \/ TickSendFails

Spec == Init /\ [][Next]_vars

----------------------------------------------------------------------------
(* The tick pump alone: a session whose client sends only configure messages *)
(* without a filter, so that longer runs of ticks are covered                *)

PumpFrames == {f \in ConfigureFrames : f.filter = "none" /\ f.paper = "absent"}

PumpNext ==
    \/ RecvFrom(PumpFrames)
    \/ StaticSendReturn
    \/ Disconnect
    \/ TickStart
    \/ TickWakeWithin(MaxPumpTicks)
    \/ TickSendReturnWithin(MaxPumpTicks)
    \/ TickSendFails

PumpSpec == Init /\ [][PumpNext]_vars


----------------------------------------------------------------------------
(* The two shapes of configure: a session whose client sends configure      *)
(* messages in the v1 shape, next to v2 messages that subscribe and filter  *)

ShapeFrames ==
    {f \in ConfigureFrames : f.shape = "v1"}
        \cup {f \in ConfigureFrames :
                 /\ f.shape = "v2" /\ f.pv = 2 /\ f.paper = "absent"
                 /\ <<f.subscribe, f.filter>>
                       \in {<<Some(<<"MOCK", "AAA">>), "none">>, <<None, "F1">>}}

ShapeNext ==
    \/ RecvFrom(ShapeFrames)
    \/ StaticSendReturn
    \/ Disconnect
    \/ \E m \in 1..Len(managers) : ManagerIterate(m)
    \/ \E m \in 1..Len(managers) : ManagerSendReturn(m)
    \/ TickStart
    \/ TickWake
    \/ TickSendReturn
    \/ TickSendFails

ShapeSpec == Init /\ [][ShapeNext]_vars

----------------------------------------------------------------------------
(* A session that lasts: the client stays connected and sends configure     *)
(* messages in the v2 shape with a subscribe list; the event loop runs      *)
(* every task that is ready, timers fire and sends to the client complete   *)

LiveFrames ==
    {[NoFrame EXCEPT !.kind = "configure", !.shape = "v2", !.pv = pv,
                     !.subscribe = Some(symbols)] :
        pv \in {0, 2}, symbols \in {<<"MOCK">>, <<"AAA">>, <<"MOCK", "AAA">>}}

LiveNext ==
    \/ RecvFrom(LiveFrames)
    \/ StaticSendReturn
    \/ TickStart
    \/ TickWakeWithin(MaxPumpTicks)
    \/ TickSendReturnWithin(MaxPumpTicks)

LiveSpec ==
    /\ Init
    /\ [][LiveNext]_vars
    /\ WF_vars(StaticSendReturn)
    /\ WF_vars(TickStart)
    /\ WF_vars(TickWakeWithin(MaxPumpTicks))
    /\ WF_vars(TickSendReturnWithin(MaxPumpTicks))

----------------------------------------------------------------------------
(* Paper fill store under several writers: PaperEngine.execute_order, one   *)
(* sqlite statement per step.  Inside one event loop a call runs without    *)
(* suspending; the steps of calls made by different processes on the same   *)
(* database file interleave, under sqlite's write lock.                     *)

sessionVars == <<reader, nframes, lastFrame, lastConfigure, superseded,
                 is_paper_trading, protocol_version, universe_task, managers,
                 tick_task, batch, subs, prices, wire>>

storeVars == <<orders, trades, conns, returned>>

tokenVars == <<now, upstox_tokens, saved, got>>

\* what the steps of the store, of the token store and of the listener leave
\* alone
beyondStore == <<sessionVars, tokenVars, sessions, serviceVars>>

beyondTokens == <<sessionVars, storeVars, sessions, serviceVars>>

beyondListener == <<sessionVars, storeVars, tokenVars, serviceVars>>

StoreOrders == {GoodOrder, LimitOrder}

RECURSIVE CallsOpen(_, _)
CallsOpen(cs, n) ==
    IF n = 0 THEN 0
    ELSE CallsOpen(cs, n - 1) + (IF cs[n].pc # "idle" THEN 1 ELSE 0)

\* the calls that have committed or are under way
CallsBegun(cs) == Len(returned) + CallsOpen(cs, MaxWriters)

\* the writer's connection holds sqlite's write lock
InWrite(c) == c.pc \in {"order_inserted", "trade_inserted"}

\* variant: writers do not exclude each other
WriteLockIgnored(cs, w) == TRUE

\* paper_engine.py:54: the INSERT takes the write lock, which no other
\* connection may hold
WriteLockFree(cs, w) == \A v \in Writers : v # w => ~InWrite(cs[v])

Pending(row) == IF row = None THEN <<>> ELSE <<row[1]>>

\* variant: statements are committed one by one, a failure keeps them
RollbackKeeps(rows, pending) == rows \o pending

\* paper_engine.py:50-69: a connection dropped before conn.commit() leaves
\* the table as it was
Rollback(rows, pending) == rows

\* paper_engine.py:50-51
Begin(w) ==
    /\ UNCHANGED beyondStore
    /\ conns[w].pc = "idle"
    /\ CallsBegun(conns) < MaxCalls
    /\ \E o \in StoreOrders :
          conns' = [conns EXCEPT ![w] =
                       [IdleConn(@.last) EXCEPT !.pc = "connected",
                                                !.order = Some(o)]]
    /\ UNCHANGED <<orders, trades, returned>>

\* paper_engine.py:54-58
InsertOrder(w) ==
    /\ UNCHANGED beyondStore
    /\ conns[w].pc = "connected"
    /\ WriteLockFree(conns, w)
    /\ conns' = [conns EXCEPT ![w].pc = "order_inserted",
                              ![w].order_row =
                                  Some(OrderRow(orders, conns[w].order[1]))]
    /\ UNCHANGED <<orders, trades, returned>>

\* paper_engine.py:54: the lock is not released within the connection's
\* timeout and the INSERT raises
Busy(w) ==
    /\ UNCHANGED beyondStore
    /\ conns[w].pc = "connected"
    /\ ~WriteLockFree(conns, w)
    /\ conns' = [conns EXCEPT ![w] = IdleConn("busy")]
    /\ UNCHANGED <<orders, trades, returned>>

\* paper_engine.py:63-66
InsertTrade(w) ==
    /\ UNCHANGED beyondStore
    /\ conns[w].pc = "order_inserted"
    /\ conns' = [conns EXCEPT ![w].pc = "trade_inserted",
                              ![w].trade_row =
                                  Some(TradeRow(trades, conns[w].order_row[1].id,
                                                conns[w].order[1]))]
    /\ UNCHANGED <<orders, trades, returned>>

\* paper_engine.py:68-72
Commit(w) ==
    /\ UNCHANGED beyondStore
    /\ conns[w].pc = "trade_inserted"
    /\ orders' = orders \o Pending(conns[w].order_row)
    /\ trades' = trades \o Pending(conns[w].trade_row)
    /\ returned' = Append(returned, conns[w].order_row[1].id)
    /\ conns' = [conns EXCEPT ![w] = IdleConn("committed")]

\* paper_engine.py:54-68: a statement or the commit raises
Fail(w) ==
    /\ UNCHANGED beyondStore
    /\ conns[w].pc \in {"order_inserted", "trade_inserted"}
    /\ orders' = Rollback(orders, Pending(conns[w].order_row))
    /\ trades' = Rollback(trades, Pending(conns[w].trade_row))
    /\ conns' = [conns EXCEPT ![w] = IdleConn("rolled_back")]
    /\ UNCHANGED returned

StoreNext ==
    \/ \E w \in Writers : Begin(w)
    \/ \E w \in Writers : InsertOrder(w)
    \/ \E w \in Writers : Busy(w)
    \/ \E w \in Writers : InsertTrade(w)
    \/ \E w \in Writers : Commit(w)
    \/ \E w \in Writers : Fail(w)

StoreSpec == Init /\ [][StoreNext]_vars

----------------------------------------------------------------------------
(* Token store: AuthStore, with the clock in half seconds so that the       *)
(* truncation of time.time() to whole seconds shows                         *)

\* int(time.time())
IntTime(t) == t \div 2

AccessTokens == {"token-1", "token-2"}

\* the expires_in / expires_at arguments of a save: expires_in alone, neither,
\* or expires_at alone
SaveArgs ==
    {[expires_in |-> Some(n), expires_at |-> None] : n \in 0..MaxLifetime}
    \cup {[expires_in |-> None, expires_at |-> None]}
    \cup {[expires_in |-> None, expires_at |-> Some(e)] : e \in 0..MaxLifetime}

\* auth_store.py:40: if expires_in
Truthy(expires_in) == expires_in # None /\ expires_in[1] # 0

\* auth_store.py:38-54: the row the save writes at time t
TokenRow(access_token, args, t) ==
    [access_token |-> access_token,
     expires_at |->
        IF args.expires_at # None THEN args.expires_at[1]
        ELSE IntTime(t) + (IF Truthy(args.expires_in) THEN args.expires_in[1]
                           ELSE 24 * 60 * 60),
     created_at |-> IntTime(t)]

\* auth_store.py:58-70
get_valid_upstox_token(table, t) ==
    IF table = None THEN None
    ELSE IF table[1].expires_at <= IntTime(t) THEN None
    ELSE Some(table[1].access_token)

\* auth_store.py:30-56
save_upstox_token ==
    \E access_token \in AccessTokens, args \in SaveArgs :
        /\ UNCHANGED beyondTokens
        /\ upstox_tokens' = Some(TokenRow(access_token, args, now))
        /\ saved' = Some([access_token |-> access_token, at |-> now,
                          expires_in |-> args.expires_in,
                          expires_at |-> args.expires_at])
        /\ got' = Unset
        /\ now' = now

\* a caller reads the token: auth_store.py:58-70
GetToken ==
    /\ UNCHANGED beyondTokens
    /\ got = Unset
    /\ got' = get_valid_upstox_token(upstox_tokens, now)
    /\ UNCHANGED <<now, upstox_tokens, saved>>

\* half a second passes
Advance ==
    /\ UNCHANGED beyondTokens
    /\ now < MaxClock
    /\ now' = now + 1
    /\ got' = Unset
    /\ UNCHANGED <<upstox_tokens, saved>>

TokenNext ==
    \/ save_upstox_token
    \/ GetToken
    \/ Advance

TokenSpec == Init /\ [][TokenNext]_vars

----------------------------------------------------------------------------
(* Listener: set-up and teardown of client sessions by websocket_endpoint,  *)
(* with the provider the configuration selects                              *)

ProviderKinds == {"mock", "kotak", "upstox"}

\* kotak.py:31, upstox.py:42: the provider's constructor opens an
\* httpx.AsyncClient; the Mock provider has none
HttpClient(kind) == IF kind \in {"kotak", "upstox"} THEN "open" ELSE "none"

\* kotak.py:47-85 and upstox.py:59-67 raise; mock.py:34-35 cannot
ConnectMayFail(kind) == kind \in {"kotak", "upstox"}

\* main.py:193
Accept(c) ==
    /\ UNCHANGED beyondListener
    /\ sessions[c].stage = "idle"
    /\ sessions' = [sessions EXCEPT ![c].stage = "accepted"]

\* main.py:194 and data_orchestrator.py:7-34
GetProvider(c) ==
    /\ UNCHANGED beyondListener
    /\ sessions[c].stage = "accepted"
    /\ \E kind \in ProviderKinds :
          sessions' = [sessions EXCEPT ![c].stage = "connecting",
                                       ![c].kind = kind,
                                       ![c].client = HttpClient(kind)]

\* main.py:195-201: connect returns and the session is constructed
ConnectReturns(c) ==
    /\ UNCHANGED beyondListener
    /\ sessions[c].stage = "connecting"
    /\ sessions' = [sessions EXCEPT ![c].stage = "serving"]

\* main.py:195: connect raises, outside the try block of the message loop; the
\* exception leaves websocket_endpoint, which sends nothing
ConnectRaises(c) ==
    /\ UNCHANGED beyondListener
    /\ sessions[c].stage = "connecting"
    /\ ConnectMayFail(sessions[c].kind)
    /\ sessions' = [sessions EXCEPT ![c].stage = "crashed"]

\* main.py:222-297: the session handles a frame of its client, which may
\* make it send a message
Serve(c) ==
    /\ UNCHANGED beyondListener
    /\ sessions[c].stage = "serving"
    /\ sessions[c].served < MaxServed
    /\ \E out \in {<<>>, <<[action |-> "universe"]>>} :
          sessions' = [sessions EXCEPT ![c].served = @ + 1,
                                       ![c].sent = @ \o out]

\* main.py:299-307: the message loop ends and the tasks are cancelled
End(c) ==
    /\ UNCHANGED beyondListener
    /\ sessions[c].stage = "serving"
    /\ sessions' = [sessions EXCEPT ![c].stage = "ended"]

ServerNext ==
    \/ \E c \in Clients : Accept(c)
    \/ \E c \in Clients : GetProvider(c)
    \/ \E c \in Clients : ConnectReturns(c)
    \/ \E c \in Clients : ConnectRaises(c)
    \/ \E c \in Clients : Serve(c)
    \/ \E c \in Clients : End(c)

ServerSpec == Init /\ [][ServerNext]_vars

----------------------------------------------------------------------------
(* OAuth endpoints: /upstox/auth issues a state, /upstox receives the        *)
(* redirect, exchanges the code and saves the token.  A callback suspends   *)
(* once, at the token exchange; other requests run meanwhile.               *)

beyondOAuth == <<sessionVars, storeVars, sessions, poll, resolved, mocks,
                 backtest, unitVars>>

\* main.py:131: 10 * 60 seconds
StateLifetime == 10 * 60

\* secrets.token_urlsafe(16) at main.py:130 gives a value not seen before;
\* 0 stands for a state the server never issued
ForgedState == 0

\* the empty string, as in `/upstox?code=...&state=`
EmptyState == 0 - 1

\* the `state` query parameter: absent, empty, forged or one of the issued
StateParams ==
    {None, Some(EmptyState)} \cup {Some(n) : n \in 0..MaxStates}

\* the `code` query parameter
CodeParams == {None, Some("auth-code")}

\* main.py:149, 151: if state
StateTruthy(state) == state # None /\ state # Some(EmptyState)

\* main.py:80-84
_prune_states(states, t) == {e \in states : ~(e.exp <= IntTime(t))}

StateKeys(states) == {e.state : e \in states}

\* main.py:152
PopState(states, state) ==
    IF StateTruthy(state) THEN {e \in states : e.state # state[1]} ELSE states

\* the token endpoint's answers with status 200: with or without an
\* access_token, with an expires_in or without
ExchangePayloads ==
    {[access_token |-> "", expires_in |-> None],
     [access_token |-> "token-1", expires_in |-> None],
     [access_token |-> "token-1", expires_in |-> Some(MaxLifetime)]}

\* main.py:117-138, with the credentials configured
upstox_auth ==
    /\ UNCHANGED beyondOAuth
    /\ Len(issued) < MaxStates
    /\ LET state == Len(issued) + 1
       IN /\ oauth_states' =
                 _prune_states(oauth_states, now)
                    \cup {[state |-> state,
                           exp |-> IntTime(now) + StateLifetime]}
          /\ issued' = Append(issued, [state |-> state, at |-> now])
    /\ UNCHANGED <<callbacks, used, tokenVars>>

\* the state was issued less than 600 seconds before time t and no earlier
\* callback got through with it (computed from the history, not from
\* _UPSTOX_OAUTH_STATES)
StateGood(state, t) ==
    /\ StateTruthy(state)
    /\ \E k \in 1..Len(issued) :
          /\ issued[k].state = state[1]
          /\ t - issued[k].at < 2 * StateLifetime
    /\ state[1] \notin used

\* main.py:142-169, up to the await of the exchange
upstox_callback ==
    \E code \in CodeParams, state \in StateParams, api_secret \in BOOLEAN :
        LET pruned == _prune_states(oauth_states, now)
        IN /\ UNCHANGED beyondOAuth
           /\ IF code = None
              THEN UNCHANGED <<oauth_states, callbacks, used>>
              ELSE IF StateTruthy(state) /\ state[1] \notin StateKeys(pruned)
              THEN /\ oauth_states' = pruned
                   /\ UNCHANGED <<callbacks, used>>
              ELSE /\ oauth_states' = PopState(pruned, state)
                   /\ used' = IF StateTruthy(state) THEN used \cup {state[1]}
                              ELSE used
                   /\ IF api_secret
                      THEN /\ Len(callbacks) < MaxCallbacks
                           /\ callbacks' =
                                 Append(callbacks,
                                        [stage |-> "exchanging",
                                         good |-> StateGood(state, now)])
                      ELSE UNCHANGED callbacks
           /\ UNCHANGED <<issued, tokenVars>>

\* main.py:164-183 and upstox_auth.py:22-24: the token endpoint answers 200
ExchangeReturns(i) ==
    \E payload \in ExchangePayloads :
        /\ UNCHANGED beyondOAuth
        /\ i <= Len(callbacks)
        /\ callbacks[i].stage = "exchanging"
        /\ IF payload.access_token = ""
           THEN /\ callbacks' = [callbacks EXCEPT ![i].stage = "no_token"]
                /\ UNCHANGED tokenVars
           ELSE LET args == [expires_in |-> payload.expires_in,
                             expires_at |-> None]
                IN /\ callbacks' = [callbacks EXCEPT ![i].stage = "stored"]
                   /\ upstox_tokens' =
                         Some(TokenRow(payload.access_token, args, now))
                   /\ saved' = Some([access_token |-> payload.access_token,
                                     at |-> now,
                                     expires_in |-> args.expires_in,
                                     expires_at |-> args.expires_at])
                   /\ got' = Unset
                   /\ now' = now
        /\ UNCHANGED <<oauth_states, issued, used>>

\* main.py:170-171: the request fails or upstox_auth.py:22-23 raises
ExchangeRaises(i) ==
    /\ UNCHANGED beyondOAuth
    /\ i <= Len(callbacks)
    /\ callbacks[i].stage = "exchanging"
    /\ callbacks' = [callbacks EXCEPT ![i].stage = "failed"]
    /\ UNCHANGED <<oauth_states, issued, used, tokenVars>>

\* half a second passes between two requests
HalfSecond ==
    /\ UNCHANGED beyondOAuth
    /\ now < MaxSkew
    /\ now' = now + 1
    /\ got' = Unset
    /\ UNCHANGED <<upstox_tokens, saved, oauthVars>>

\* the user stays on the provider's login page: between a little less than the
\* lifetime of a state and that lifetime passes
Lapse ==
    \E d \in (2 * StateLifetime - MaxSkew)..(2 * StateLifetime) :
        /\ UNCHANGED beyondOAuth
        /\ now <= MaxSkew
        /\ now' = now + d
        /\ got' = Unset
        /\ UNCHANGED <<upstox_tokens, saved, oauthVars>>

OAuthNext ==
    \/ upstox_auth
    \/ upstox_callback
    \/ \E i \in 1..MaxCallbacks : ExchangeReturns(i)
    \/ \E i \in 1..MaxCallbacks : ExchangeRaises(i)
    \/ HalfSecond
    \/ Lapse

OAuthSpec == Init /\ [][OAuthNext]_vars

----------------------------------------------------------------------------
(* Polling providers: the stream() generators of KotakProvider and          *)
(* UpstoxProvider, read by tick_stream_loop.  Time is counted in half       *)
(* seconds; `since` is the time the loop has slept since its latest quote   *)
(* request, which is a lower bound of the time between two requests.        *)

beyondPoll == <<sessionVars, storeVars, tokenVars, sessions, oauthVars,
                resolved, mocks, backtest, unitVars>>

PollKinds == {"kotak", "upstox"}

\* how a quote request can end: a well-formed answer with quotes, a 200
\* answer {"stat": "Not_Ok"} (Kotak), a 200 answer of another shape, a status
\* other than 200, an exception (timeout, connection error, invalid JSON)
Outcomes(kind) ==
    {"quotes", "bad_shape", "http_error", "exception"}
        \cup (IF kind = "kotak" THEN {"not_ok"} ELSE {})

\* the outcomes C23 calls a failed poll
FailedPolls == {"http_error", "exception"}

\* variant: the handler lets the failure out of the generator
AfterFailureRaises(kind, outcome) ==
    IF outcome \in FailedPolls THEN "raised"
    ELSE IF kind = "kotak" /\ outcome \in {"not_ok", "bad_shape"} THEN "top"
    ELSE "sleeping"

\* where the loop goes after a request that gave no quotes.
\* kotak.py:148-154: `continue` without sleeping; kotak.py:171-177: log, then
\* the sleep at the end of the loop; upstox.py:100-112, 133-136: sleep
AfterFailure(kind, outcome) ==
    IF kind = "kotak" /\ outcome \in {"not_ok", "bad_shape"} THEN "top"
    ELSE "sleeping"

\* asyncio.sleep(d / 2) adds to the time slept since the latest request
Slept(since, d) == IF since + d > MaxSince THEN MaxSince ELSE since + d

\* main.py:208: tick_stream_loop calls provider.stream()
StreamStart(kind) ==
    /\ UNCHANGED beyondPoll
    /\ poll.pc = "none"
    /\ poll' = [poll EXCEPT !.kind = kind, !.pc = "top"]

\* kotak.py:96-104, upstox.py:71-73: a configure or the universe manager sets
\* the subscribed symbols, to a list with symbols or to an empty one
Subscribe(some) ==
    /\ UNCHANGED beyondPoll
    /\ poll.pc \notin {"none", "cancelled", "pump_ended", "raised"}
    /\ poll.subscribed # some
    /\ poll' = [poll EXCEPT !.subscribed = some]

\* kotak.py:111-114, upstox.py:80-82
IdleWait ==
    /\ UNCHANGED beyondPoll
    /\ poll.pc = "top"
    /\ ~poll.subscribed
    /\ poll' = [poll EXCEPT !.since = Slept(@, 1)]

\* kotak.py:116-142, upstox.py:84-98: the request is sent
Request ==
    /\ UNCHANGED beyondPoll
    /\ poll.pc = "top"
    /\ poll.subscribed
    /\ poll.requests < MaxPolls
    /\ poll' = [poll EXCEPT !.pc = "requesting", !.requests = @ + 1,
                            !.since = 0, !.outcome = "none"]

\* kotak.py:142-154, 171-175 and upstox.py:96-112, 133-134: the request ends
Response ==
    \E outcome \in Outcomes(poll.kind), n \in 0..MaxQuotes :
        /\ UNCHANGED beyondPoll
        /\ poll.pc = "requesting"
        /\ outcome = "quotes" \/ n = 0
        /\ poll' = [poll EXCEPT
                       !.outcome = outcome,
                       !.pending = n,
                       !.failed = @ \/ outcome \in FailedPolls,
                       !.pc = IF outcome = "quotes" THEN "yielding"
                              ELSE AfterFailure(poll.kind, outcome)]

\* kotak.py:156-170, upstox.py:114-132 and main.py:208-217: the next item of
\* the answer becomes a Tick, which the pump sends to the client
YieldTick ==
    /\ UNCHANGED beyondPoll
    /\ poll.pc = "yielding"
    /\ poll.pending > 0
    /\ poll' = [poll EXCEPT !.pending = @ - 1,
                            !.delivered = IF poll.failed THEN 1 ELSE 0]

\* kotak.py:161-162, upstox.py:118-124: an item does not parse (float() of a
\* text); the exception is caught at kotak.py:174, upstox.py:133
ParseRaises ==
    /\ UNCHANGED beyondPoll
    /\ poll.pc = "yielding"
    /\ poll.pending > 0
    /\ poll' = [poll EXCEPT !.pending = 0, !.outcome = "exception",
                            !.failed = TRUE,
                            !.pc = AfterFailure(poll.kind, "exception")]

\* the items of the answer are used up: on to the sleep at the end of the loop
BatchDone ==
    /\ UNCHANGED beyondPoll
    /\ poll.pc = "yielding"
    /\ poll.pending = 0
    /\ poll' = [poll EXCEPT !.pc = "sleeping"]

\* kotak.py:177, upstox.py:102, 109, 136: asyncio.sleep(1) returns
Wake ==
    /\ UNCHANGED beyondPoll
    /\ poll.pc = "sleeping"
    /\ poll' = [poll EXCEPT !.pc = "top", !.since = Slept(@, 2)]

\* main.py:213-219: the send to the client raises and the pump ends
PumpSendRaises ==
    /\ UNCHANGED beyondPoll
    /\ poll.pc = "yielding"
    /\ poll.pending > 0
    /\ poll' = [poll EXCEPT !.pc = "pump_ended", !.pending = 0]

\* variant: the handler catches whatever is raised
CaughtAny(exc) == TRUE

\* kotak.py:174, upstox.py:133 and main.py:218: `except Exception` catches
\* the subclasses of Exception; asyncio.CancelledError and GeneratorExit
\* derive from BaseException
Caught(exc) == exc \notin {"CancelledError", "GeneratorExit"}

\* the generator is suspended inside its try block: at the request
\* (kotak.py:142, upstox.py:92) or, on Upstox, at the sleep after an answer
\* that is no quote (upstox.py:102, 109)
InTry(p) ==
    \/ p.pc = "requesting"
    \/ p.pc = "sleeping" /\ p.kind = "upstox"
           /\ p.outcome \in {"http_error", "bad_shape"}

\* task.cancel() raises CancelledError at the await the pump is suspended in.
\* At a yield that is the send of main.py:214-216, inside the pump's own
\* try block: the pump ends either way.  Elsewhere it is an await of the
\* generator: a handler that catches it logs and goes on to the sleep at the
\* end of the loop (kotak.py:174-177, upstox.py:133-136), otherwise the
\* generator and the task end.
AfterCancel(p) ==
    IF p.pc = "yielding"
    THEN IF Caught("CancelledError") THEN "pump_ended" ELSE "cancelled"
    ELSE IF InTry(p) /\ Caught("CancelledError") THEN "sleeping"
    ELSE "cancelled"

\* main.py:303-304: the session ends and cancels the pump
PumpCancelled ==
    /\ UNCHANGED beyondPoll
    /\ poll.pc \in {"top", "requesting", "yielding", "sleeping"}
    /\ ~poll.cancel
    /\ poll' = [poll EXCEPT !.pc = AfterCancel(poll), !.pending = 0,
                            !.cancel = TRUE]

PollNext ==
    \/ \E kind \in PollKinds : StreamStart(kind)
    \/ \E some \in BOOLEAN : Subscribe(some)
    \/ IdleWait
    \/ Request
    \/ Response
    \/ YieldTick
    \/ ParseRaises
    \/ BatchDone
    \/ Wake
    \/ PumpSendRaises
    \/ PumpCancelled

PollSpec == Init /\ [][PollNext]_vars

----------------------------------------------------------------------------
(* Universe resolver on any provider: UniverseResolver.resolve called by    *)
(* UniverseManager.run with the spec of a client and the snapshot the       *)
(* provider gives at that moment                                            *)

beyondResolver == <<sessionVars, storeVars, tokenVars, sessions, oauthVars,
                    poll, mocks, backtest, unitVars>>

\* the watchlists of the specs
Watchlists == {<<>>, <<"MOCK">>, <<"AAA", "MOCK">>, <<"MOCK", "AAA">>}

\* the condition lists of the specs; FilterCondition.value is typed Any
\* (models.py:29-32), so the last one passes validation
ConditionLists ==
    [none |-> <<>>,
     gt |-> <<[field |-> "last_price", op |-> "gt", value |-> 100]>>,
     lte |-> <<[field |-> "last_price", op |-> "lte", value |-> 100]>>,
     two |-> <<[field |-> "last_price", op |-> "gte", value |-> 100],
               [field |-> "day_volume", op |-> "lt", value |-> 101]>>,
     between |-> <<[field |-> "last_price", op |-> "between",
                    value |-> <<100, 100>>]>>,
     member |-> <<[field |-> "day_volume", op |-> "in", value |-> <<100>>]>>,
     short |-> <<[field |-> "last_price", op |-> "between",
                  value |-> <<100>>]>>]

\* the rows of a snapshot: any of the fields may be missing
SnapshotRows ==
    {[last_price |-> v] : v \in PriceLevels}
        \cup {[day_volume |-> base_price],
              [last_price |-> base_price, day_volume |-> base_price]}

\* the snapshots a provider can give for the symbols: a row for some of them
Snapshots(symbols) ==
    UNION {[S -> SnapshotRows] : S \in SUBSET SeqToSet(symbols)}

\* the values of max_symbols: models.py:55 declares an int without a range
MaxSymbolsValues == (0 - 1)..MaxSymbols

\* q[:n] of Python
PySlice(q, n) ==
    IF n >= 0 THEN Prefix(q, n)
    ELSE Prefix(q, IF Len(q) + n > 0 THEN Len(q) + n ELSE 0)

Returned(list) == [kind |-> "returned", list |-> list]

Raised == [kind |-> "raised", list |-> <<>>]

\* variant: NotImplementedError is not caught
WithoutSnapshotRaises(base, max_symbols) == Raised

\* universe_manager.py:71-75: the provider's snapshot raises
\* NotImplementedError (base.py:29-35, inherited by the Kotak and Upstox
\* providers)
WithoutSnapshot(base, max_symbols) == Returned(PySlice(base, max_symbols))

\* universe_manager.py:65-90
resolve_on(spec, supports, snap) ==
    LET base == candidates(spec)
    IN IF spec.conditions = <<>> THEN Returned(PySlice(base, spec.max_symbols))
       ELSE IF ~supports THEN WithoutSnapshot(base, spec.max_symbols)
       ELSE IF \E k \in 1..Len(base) :
                  /\ base[k] \in DOMAIN snap
                  /\ RowRaises(snap[base[k]], spec.conditions)
       THEN Raised
       ELSE Returned(PySlice(Select(base, snap, spec.conditions),
                             spec.max_symbols))

\* main.py:262-270 and universe_manager.py:93-107: a manager is constructed
\* for the spec of a configure, on the provider of the session
ManagerStarts ==
    \E w \in Watchlists, c \in DOMAIN ConditionLists, n \in MaxSymbolsValues,
       supports \in BOOLEAN :
        /\ UNCHANGED beyondResolver
        /\ resolved.loop = "none"
        /\ resolved' =
              [loop |-> "running",
               spec |-> [candidates |-> [type |-> "watchlist", symbols |-> w],
                         conditions |-> ConditionLists[c],
                         max_symbols |-> n],
               supports |-> supports,
               called |-> FALSE,
               snap |-> <<>>,
               outcome |-> Returned(<<>>)]

\* universe_manager.py:113-114: an iteration of run() calls resolve, which
\* returns a list to the loop or raises out of run()
ResolveCalled ==
    /\ UNCHANGED beyondResolver
    /\ resolved.loop = "running"
    /\ \E snap \in Snapshots(candidates(resolved.spec)) :
          LET outcome == resolve_on(resolved.spec, resolved.supports, snap)
          IN resolved' =
                [resolved EXCEPT
                    !.called = TRUE,
                    !.snap = snap,
                    !.outcome = outcome,
                    !.loop = IF outcome.kind = "raised" THEN "failed"
                             ELSE "running"]

ResolverNext ==
    \/ ManagerStarts
    \/ ResolveCalled

ResolverSpec == Init /\ [][ResolverNext]_vars

----------------------------------------------------------------------------
(* Two Mock providers side by side: constructed with the same arguments,    *)
(* given the same subscribe calls at the same points of their streams, each *)
(* stamping its ticks with its own wall clock.  Prices are counted in       *)
(* hundred-thousandths, so that the rounding to four decimals shows.        *)

beyondMocks == <<sessionVars, storeVars, tokenVars, sessions, oauthVars,
                 poll, resolved, backtest, unitVars>>

Pair == {1, 2}

\* MOCK_SEED values
Seeds == 0..MaxSeed

PriceUnit == 100000

\* the constructor arguments: mock.py:14-21 with volatility 0.5,
\* max_deviation 0.75, mean_reversion 0.1, volumes 100..102
volatility == 50000

max_deviation == 75000

volume_min == 100

volume_max == 102

\* the d-th output of random.Random(seed): a fixed function of the seed and
\* of the number of draws made before
Draw(seed, d) == (seed * 7919 + d * d * 104729 + d * 31337) % 1000003

\* rng.uniform(-volatility, volatility) on the d-th draw
Uniform(seed, d) == (Draw(seed, d) % (2 * volatility + 1)) - volatility

\* rng.randint(volume_min, volume_max) on the d-th draw
RandInt(seed, d) ==
    volume_min + (Draw(seed, d) % (volume_max - volume_min + 1))

Clamp(lo, hi, x) == IF x < lo THEN lo ELSE IF x > hi THEN hi ELSE x

\* round(next_price, 4)
Round4(x) == ((x + 5) \div 10) * 10

\* mock.py:48-55
NextPrice(current, step) ==
    LET base == base_price * PriceUnit
        reversion == ((base - current) * 1) \div 10
    IN Clamp(base - max_deviation, base + max_deviation,
             current + step + reversion)

\* mock.py:23-32
NewMock(seed, symbols) ==
    [seed |-> seed, draws |-> 0, subs |-> symbols,
     prices |-> [x \in Symbols |-> base_price * PriceUnit], ticks |-> <<>>]

\* variant: the generator is shared by all providers of the process, so the
\* second provider goes on where the first one stopped
MockTickSharedRng(m, symbol, t, other) ==
    LET d == m.draws + other
        next_price == NextPrice(m.prices[symbol], Uniform(m.seed, d))
    IN [m EXCEPT !.draws = @ + 2,
                 !.prices[symbol] = next_price,
                 !.ticks = Append(@, [symbol |-> symbol,
                                      price |-> Round4(next_price),
                                      volume |-> RandInt(m.seed, d + 1),
                                      timestamp |-> t,
                                      provider |-> "mock"])]

\* mock.py:48-62: one tick of symbol at wall-clock time t; other is the
\* number of draws other providers have made
MockTick(m, symbol, t, other) ==
    LET next_price == NextPrice(m.prices[symbol], Uniform(m.seed, m.draws))
    IN [m EXCEPT !.draws = @ + 2,
                 !.prices[symbol] = next_price,
                 !.ticks = Append(@, [symbol |-> symbol,
                                      price |-> Round4(next_price),
                                      volume |-> RandInt(m.seed, m.draws + 1),
                                      timestamp |-> t,
                                      provider |-> "mock"])]

\* mock.py:47-62: the ticks of one interval, over the sorted subscriptions
RECURSIVE MockBatch(_, _, _, _)
MockBatch(m, symbols, t, other) ==
    IF symbols = <<>> THEN m
    ELSE MockBatch(MockTick(m, Head(symbols), t, other), Tail(symbols), t,
                   other)

\* the subscription lists given to the providers
MockLists == {<<"MOCK">>, <<"MOCK", "AAA">>, <<"AAA">>}

\* data_orchestrator.py:20-33 twice with the same configuration
MocksBuilt ==
    \E seed \in Seeds, symbols \in MockLists :
        /\ UNCHANGED beyondMocks
        /\ ~mocks.built
        /\ mocks' = [built |-> TRUE, intervals |-> 0, at |-> 0,
                     of |-> [p \in Pair |-> NewMock(seed, symbols)]]

\* mock.py:37-41 on both providers
MocksSubscribe ==
    \E symbols \in MockLists :
        /\ UNCHANGED beyondMocks
        /\ mocks.built
        /\ \A p \in Pair : mocks.of[p].subs # symbols
        /\ mocks' = [mocks EXCEPT
                        !.of = [p \in Pair |-> [@[p] EXCEPT !.subs = symbols]]]

\* mock.py:45-62 on both providers: an interval passes and each yields its
\* batch, the second provider up to MaxLag clock units after the first
MocksInterval ==
    \E lag \in 0..MaxLag :
        /\ UNCHANGED beyondMocks
        /\ mocks.built
        /\ mocks.intervals < MaxIntervals
        /\ mocks' =
              [mocks EXCEPT
                  !.intervals = @ + 1,
                  !.at = @ + 1,
                  !.of = [p \in Pair |->
                             MockBatch(@[p], SortedList(@[p].subs),
                                       mocks.at + 1 + (IF p = 2 THEN lag ELSE 0),
                                       IF p = 2 THEN @[1].draws ELSE 0)]]

MockNext ==
    \/ MocksBuilt
    \/ MocksSubscribe
    \/ MocksInterval

MockSpec == Init /\ [][MockNext]_vars

----------------------------------------------------------------------------
(* Historical candles of the Upstox provider: UpstoxProvider.historical and  *)
(* its _format_interval.  A string is the sequence of its characters.        *)

beyondBacktest == <<sessionVars, storeVars, tokenVars, sessions, oauthVars,
                    poll, resolved, mocks, unitVars>>

Digits == {"1", "2", "5"}

Whitespace == {" "}

\* the upper-case letters of the inputs, each with its lower-case letter
UpperCase == [M |-> "m", H |-> "h", D |-> "d"]

\* str.lower()
lower(s) ==
    [i \in 1..Len(s) |-> IF s[i] \in DOMAIN UpperCase THEN UpperCase[s[i]]
                         ELSE s[i]]

\* str.strip()
strip(s) ==
    LET inked == {i \in 1..Len(s) : s[i] \notin Whitespace}
    IN  IF inked = {} THEN <<>>
        ELSE SubSeq(s, CHOOSE i \in inked : \A j \in inked : i <= j,
                       CHOOSE i \in inked : \A j \in inked : j <= i)

\* str.isdigit()
isdigit(s) == Len(s) > 0 /\ \A i \in 1..Len(s) : s[i] \in Digits

\* str.endswith(c) for a single character c
endswith(s, c) == Len(s) > 0 /\ s[Len(s)] = c

\* s[:-1]
ButLast(s) == SubSeq(s, 1, Len(s) - 1)

\* c in s
Within(c, s) == \E i \in 1..Len(s) : s[i] = c

\* s.split(c, 1) for an s that holds c
split(s, c) ==
    LET at == CHOOSE i \in 1..Len(s) : s[i] = c /\ \A j \in 1..(i - 1) : s[j] # c
    IN  <<SubSeq(s, 1, at - 1), SubSeq(s, at + 1, Len(s))>>

minute == <<"m", "i", "n", "u", "t", "e">>
hour == <<"h", "o", "u", "r">>
day == <<"d", "a", "y">>
week == <<"w", "e", "e", "k">>
month == <<"m", "o", "n", "t", "h">>

\* variant: the unit's letter is put before the multiplier
ShorthandUnitFirst(multiplier, unit) == <<unit[1]>> \o multiplier

\* upstox.py:257: f"{multiplier}{unit[0]}"
Shorthand(multiplier, unit) == multiplier \o <<unit[1]>>

\* upstox.py:248-268: _format_interval, the string it returns or the
\* IndexError of unit[0] on an empty unit
RECURSIVE _format_interval(_)
_format_interval(interval) ==
    IF interval = None \/ interval = Some(<<>>) THEN Returned(<<"1">> \o minute)
    ELSE LET text == interval[1]
             value == lower(strip(text))
         IN  IF Within("/", text)
             THEN LET unit == lower(strip(split(text, "/")[1]))
                      multiplier == strip(split(text, "/")[2])
                  IN  IF isdigit(multiplier)
                      THEN IF unit = <<>> THEN Raised
                           ELSE _format_interval(Some(Shorthand(multiplier, unit)))
                      ELSE Returned(text)
             ELSE IF endswith(value, "m") /\ isdigit(ButLast(value))
                  THEN Returned(ButLast(value) \o minute)
             ELSE IF endswith(value, "h") /\ isdigit(ButLast(value))
                  THEN Returned(ButLast(value) \o hour)
             ELSE IF endswith(value, "d") /\ isdigit(ButLast(value))
                  THEN IF ButLast(value) = <<"1">> THEN Returned(day)
                       ELSE Returned(ButLast(value) \o day)
             ELSE Returned(value)

\* the multipliers of the requests: the numerals of up to MaxDigits digits
RECURSIVE Numerals(_)
Numerals(n) ==
    IF n = 0 THEN {}
    ELSE IF n = 1 THEN {<<d>> : d \in Digits}
    ELSE Numerals(n - 1) \cup {q \o <<d>> : q \in Numerals(n - 1), d \in Digits}

\* the unit names of the compound form
Units ==
    {<<"m">>, minute \o <<"s">>, hour \o <<"s">>, day \o <<"s">>,
     month \o <<"s">>, week \o <<"s">>, <<>>}

\* main.py:96-101 BacktestRequest.interval: what a client may send, None when
\* the field is left out
Intervals ==
    {None, Some(<<>>), Some(<<" ">>), Some(day), Some(week), Some(month),
     Some(<<"D">> \o SubSeq(day, 2, 3)), Some(<<"1", "w">>),
     Some(minute \o <<"s", "/", "x">>)}
    \cup {Some(n \o <<c>>) : n \in Numerals(MaxDigits),
                             c \in {"m", "h", "d", "M"}}
    \cup {Some(<<" ">> \o n \o <<"m", " ">>) : n \in Numerals(1)}
    \cup {Some(u \o <<"/">> \o n) : u \in Units, n \in Numerals(MaxDigits)}
    \cup {Some(u \o <<" ", "/", " ">> \o n) : u \in Units, n \in Numerals(1)}

\* upstox.py:138-157: historical() is called for one or two symbols and makes
\* the interval segment of its URLs; the IndexError leaves the call
HistoricalCalled ==
    /\ backtest.pc = "idle"
    /\ backtest.calls < MaxBacktests
    /\ UNCHANGED beyondBacktest
    /\ \E interval \in Intervals, symbols \in 1..2 :
        LET segment == _format_interval(interval)
        IN  backtest' =
                [pc |-> IF segment = Raised THEN "raised" ELSE "requesting",
                 interval |-> interval,
                 segment |-> IF segment = Raised THEN None
                             ELSE Some(segment.list),
                 left |-> IF segment = Raised THEN 0 ELSE symbols,
                 urls |-> <<>>,
                 calls |-> backtest.calls + 1]

\* upstox.py:165-183: the GET of one symbol's candles, the interval segment
\* in its URL
CandlesGet ==
    /\ backtest.pc = "requesting"
    /\ backtest.left > 0
    /\ UNCHANGED beyondBacktest
    /\ backtest' = [backtest EXCEPT !.left = @ - 1,
                                     !.urls = Append(@, backtest.segment[1])]

\* upstox.py:199: return ticks, or main.py:104-114 answering the failed call;
\* the provider serves the next request
HistoricalReturns ==
    /\ \/ backtest.pc = "requesting" /\ backtest.left = 0
       \/ backtest.pc = "raised"
    /\ UNCHANGED beyondBacktest
    /\ backtest' = [NoBacktest EXCEPT !.calls = backtest.calls]

BacktestNext ==
    \/ HistoricalCalled
    \/ CandlesGet
    \/ HistoricalReturns

BacktestSpec == Init /\ [][BacktestNext]_vars

----------------------------------------------------------------------------
(* UniverseManager.run under stop(): universe_manager.py:109-137.  run() is  *)
(* a task of its own; it can be suspended in resolve (the provider's          *)
(* snapshot), in set_subscriptions, in send_json and in asyncio.sleep, and   *)
(* its owner may call stop() while it is suspended or before it first runs.  *)

\* the other components, checked on their own
earlierVars == <<oauthVars, poll, resolved, mocks, backtest>>

beyondMgr == <<sessionVars, storeVars, tokenVars, sessions, earlierVars,
               upstox, mstream, engine>>

\* what resolve may return from one call to the next
ResolvedLists == {<<>>, <<"AAA">>, <<"MOCK">>, <<"AAA", "MOCK">>}

\* variant: the loop does not look at the flag
LoopsOnAlways(running) == TRUE

\* universe_manager.py:113: while self._running
LoopsOn(running) == running

\* universe_manager.py:93-107 and asyncio.create_task(manager.run()): the
\* task is created and has not run yet
MgrCreated ==
    /\ mgr.pc = "none"
    /\ UNCHANGED beyondMgr
    /\ mgr' = [mgr EXCEPT !.pc = "created", !.running = TRUE]

\* universe_manager.py:113-114: the loop test, from the start of the task or
\* from the end of the sleep, up to the await inside resolve
LoopTest ==
    /\ mgr.pc \in {"created", "sleeping"}
    /\ UNCHANGED beyondMgr
    /\ IF LoopsOn(mgr.running)
       THEN /\ mgr.rounds < MaxRounds
            /\ mgr' = [mgr EXCEPT !.pc = "resolving", !.rounds = @ + 1,
                                  !.again = mgr.stopped]
       ELSE mgr' = [mgr EXCEPT !.pc = "done"]

\* universe_manager.py:114-124: resolve returns, the difference is taken
\* under the lock and, when there is one, set_subscriptions is called
ResolveReturns ==
    /\ mgr.pc = "resolving"
    /\ UNCHANGED beyondMgr
    /\ \E new_list \in ResolvedLists :
        LET new_set == SeqToSet(new_list)
            changed == new_set # mgr.current
        IN  IF changed
            THEN mgr' = [mgr EXCEPT !.pc = "subscribing",
                                    !.new = new_list,
                                    !.current = new_set,
                                    !.subs = SortedSet(new_set),
                                    !.late = IF mgr.stopped THEN @ + 1 ELSE @]
            ELSE mgr' = [mgr EXCEPT !.pc = "sleeping", !.new = new_list]

\* universe_manager.py:114: resolve raises, which ends run()
ResolveFails ==
    /\ mgr.pc = "resolving"
    /\ UNCHANGED beyondMgr
    /\ mgr' = [mgr EXCEPT !.pc = "failed"]

\* universe_manager.py:124-135: set_subscriptions returns and the update is
\* handed to send_json
SubscribeReturns ==
    /\ mgr.pc = "subscribing"
    /\ UNCHANGED beyondMgr
    /\ mgr' = [mgr EXCEPT !.pc = "sending",
                          !.late = IF mgr.stopped THEN @ + 1 ELSE @]

\* universe_manager.py:135-137: send_json returns, the lock is released and
\* the sleep begins
SendReturns ==
    /\ mgr.pc = "sending"
    /\ UNCHANGED beyondMgr
    /\ mgr' = [mgr EXCEPT !.pc = "sleeping"]

\* universe_manager.py:109-110: the owner calls stop()
Stop ==
    /\ mgr.pc \in {"created", "resolving", "subscribing", "sending", "sleeping"}
    /\ ~mgr.stopped
    /\ UNCHANGED beyondMgr
    /\ mgr' = [mgr EXCEPT !.running = FALSE, !.stopped = TRUE, !.at = mgr.pc]

StopNext ==
    \/ MgrCreated
    \/ LoopTest
    \/ ResolveReturns
    \/ ResolveFails
    \/ SubscribeReturns
    \/ SendReturns
    \/ Stop

\* the event loop runs the task when it is ready; resolve, set_subscriptions
\* and send_json come back and the sleep's timer fires
StopSpec ==
    /\ Init
    /\ [][StopNext]_vars
    /\ WF_vars(LoopTest)
    /\ WF_vars(ResolveReturns \/ ResolveFails)
    /\ WF_vars(SubscribeReturns)
    /\ WF_vars(SendReturns)

----------------------------------------------------------------------------
(* UpstoxProvider.connect: upstox.py:46-69 and 208-233, on the token store   *)
(* of auth_store.py.  The store's table may have been written before, by the *)
(* OAuth callback or an earlier provider; time passes while the code         *)
(* exchange is awaited.                                                      *)

beyondConnect == <<sessionVars, storeVars, sessions, earlierVars, mgr,
                   mstream, engine>>

\* upstox.py:29: the token argument or UPSTOX_ACCESS_TOKEN as given: none,
\* blank, or a token
GivenTokens == {"", " ", "token-1"}

\* str.strip() on the values above
Stripped(text) == IF text = " " THEN "" ELSE text

\* the save of auth_store.py:30-56 as a call: the table and the history
\* after it
Saves(access_token, expires_in) ==
    LET args == [expires_in |-> expires_in, expires_at |-> None]
    IN  /\ upstox_tokens' = Some(TokenRow(access_token, args, now))
        /\ saved' = Some([access_token |-> access_token, at |-> now,
                          expires_in |-> expires_in, expires_at |-> None])

\* variant: the store is not asked
CachedIgnored(store, table, t) == None

\* upstox.py:51, 55-56: self.auth_store.get_valid_upstox_token(), None
\* without a store
Cached(store, table, t) ==
    IF store THEN get_valid_upstox_token(table, t) ELSE None

\* variant: an explicit token is never written to the store
SeedsStoreNever(store, cached) == FALSE

\* upstox.py:51: if self.auth_store and not ...get_valid_upstox_token()
SeedsStore(store, cached) == store /\ cached = None

\* upstox.py:19-44: the constructor
UpstoxBuilt ==
    /\ upstox.pc = "none"
    /\ UNCHANGED beyondConnect
    /\ UNCHANGED tokenVars
    /\ \E token \in GivenTokens, store \in BOOLEAN, creds \in BOOLEAN :
        upstox' = [upstox EXCEPT !.pc = "built",
                                 !.explicit = token,
                                 !.access_token = Stripped(token),
                                 !.store = store,
                                 !.creds = creds]

\* upstox.py:46-69 up to the await of the code exchange (209-218): the
\* explicit token, else the cached one, else the exchange when the
\* credentials and the code are there, else the ValueError; the table and
\* the time connect found are kept as history
Connect ==
    /\ upstox.pc = "built"
    /\ UNCHANGED beyondConnect
    /\ now' = now
    /\ got' = Unset
    /\ LET cached == Cached(upstox.store, upstox_tokens, now)
           found == [upstox EXCEPT !.table = upstox_tokens, !.began = now]
       IN  IF upstox.access_token # ""
           THEN /\ IF SeedsStore(upstox.store, cached)
                   THEN Saves(upstox.access_token, None)
                   ELSE UNCHANGED <<upstox_tokens, saved>>
                /\ upstox' = [found EXCEPT
                       !.pc = "connected", !.path = "explicit",
                       !.readback = get_valid_upstox_token(upstox_tokens', now)]
           ELSE IF cached # None
           THEN /\ UNCHANGED <<upstox_tokens, saved>>
                /\ upstox' = [found EXCEPT
                       !.pc = "connected", !.path = "cached",
                       !.access_token = cached[1],
                       !.readback = get_valid_upstox_token(upstox_tokens, now)]
           ELSE /\ UNCHANGED <<upstox_tokens, saved>>
                /\ IF upstox.creds
                   THEN upstox' = [found EXCEPT !.pc = "exchanging",
                                                !.posts = @ + 1]
                   ELSE upstox' = [found EXCEPT !.pc = "raised"]

\* upstox_auth.py:20-24 and upstox.py:219-233, 62-69: the token endpoint
\* answers 200; the token is kept and saved, or missing
CodeExchanged ==
    /\ upstox.pc = "exchanging"
    /\ UNCHANGED beyondConnect
    /\ now' = now
    /\ got' = Unset
    /\ \E payload \in ExchangePayloads :
        IF payload.access_token = ""
        THEN /\ UNCHANGED <<upstox_tokens, saved>>
             /\ upstox' = [upstox EXCEPT !.pc = "raised", !.answer = "empty"]
        ELSE /\ IF upstox.store
                THEN Saves(payload.access_token, payload.expires_in)
                ELSE UNCHANGED <<upstox_tokens, saved>>
             /\ upstox' = [upstox EXCEPT
                    !.pc = "connected", !.path = "exchange",
                    !.answer = "token",
                    !.access_token = payload.access_token,
                    !.readback = get_valid_upstox_token(upstox_tokens', now)]

\* upstox_auth.py:22-23 and upstox.py:217-219, 62-67: the exchange raises,
\* which is logged; connect raises its ValueError
CodeExchangeFails ==
    /\ upstox.pc = "exchanging"
    /\ UNCHANGED beyondConnect
    /\ UNCHANGED tokenVars
    /\ upstox' = [upstox EXCEPT !.pc = "raised", !.answer = "failed"]

\* the store is written before the provider connects
SavedBefore == upstox.pc \in {"none", "built"} /\ save_upstox_token

\* half a second passes before the connect or during the exchange
ConnectLater == upstox.pc \in {"none", "built", "exchanging"} /\ Advance

ConnectNext ==
    \/ UpstoxBuilt
    \/ Connect
    \/ CodeExchanged
    \/ CodeExchangeFails
    \/ SavedBefore
    \/ ConnectLater

ConnectSpec == Init /\ [][ConnectNext]_vars

----------------------------------------------------------------------------
(* MockProvider.stream under set_subscriptions: mock.py:30-62 and            *)
(* base.py:25-26.  The generator is suspended in its sleep or at a yield;    *)
(* set_subscriptions runs while it is suspended.  A batch is one pass of the *)
(* for loop over sorted(self._subscriptions).                                *)

beyondStream == <<sessionVars, storeVars, tokenVars, sessions, earlierVars,
                  mgr, upstox, engine>>

\* the lists a provider is given: by its constructor, by a client's static
\* subscribe (any list of the client's) or by a universe manager
GivenLists ==
    {<<>>, <<"AAA">>, <<"MOCK", "AAA">>, <<"AAA", "AAA">>}

\* mock.py:31: list(symbols or ["MOCK"])
Constructed(symbols) == IF symbols = <<>> THEN <<"MOCK">> ELSE symbols

\* variant: the symbols are added to the subscriptions
SubscribedAdded(old, symbols) == old \o symbols

\* mock.py:38: self._subscriptions = list(symbols)
Subscribed(old, symbols) == symbols

\* mock.py:47-62: the tick of the batch's next symbol is yielded; the record
\* keeps its batch, whether its symbol is outside the latest list given and
\* whether its batch was in progress when that list was given
Yielded(st, rest) ==
    [st EXCEPT
        !.pc = "yielded",
        !.batch = Tail(rest),
        !.out = Append(@, [symbol |-> Head(rest), batch |-> st.n,
                           stale |-> Head(rest) \notin SeqToSet(st.latest),
                           carried |-> st.since = st.n])]

\* mock.py:9-32, 43-46: the provider is constructed and its stream started,
\* which sleeps one interval
StreamBuilt ==
    /\ mstream.pc = "none"
    /\ UNCHANGED beyondStream
    /\ \E symbols \in GivenLists :
        mstream' = [mstream EXCEPT !.pc = "sleeping",
                                   !.subs = Constructed(symbols),
                                   !.latest = Constructed(symbols)]

\* mock.py:46-47: the sleep ends and a batch begins over
\* sorted(self._subscriptions); with no subscription the next sleep follows
BatchBegins ==
    /\ mstream.pc = "sleeping"
    /\ mstream.n < MaxBatches
    /\ UNCHANGED beyondStream
    /\ LET begun == [mstream EXCEPT !.n = @ + 1,
                                    !.begun = Append(@, mstream.latest)]
           rest == SortedList(mstream.subs)
       IN  IF rest = <<>> THEN mstream' = begun
           ELSE mstream' = Yielded(begun, rest)

\* mock.py:47-62: the consumer asks for the next tick; the batch goes on or,
\* being over, the stream sleeps
StreamResumes ==
    /\ mstream.pc = "yielded"
    /\ UNCHANGED beyondStream
    /\ IF mstream.batch # <<>>
       THEN mstream' = Yielded(mstream, mstream.batch)
       ELSE mstream' = [mstream EXCEPT !.pc = "sleeping"]

\* base.py:25-26, mock.py:37-41: set_subscriptions(symbols) while the stream
\* is suspended
SetSubscriptions ==
    /\ mstream.pc \in {"sleeping", "yielded"}
    /\ mstream.sets < MaxSets
    /\ UNCHANGED beyondStream
    /\ \E symbols \in GivenLists :
        mstream' = [mstream EXCEPT
            !.subs = Subscribed(@, symbols),
            !.latest = symbols,
            !.since = IF mstream.pc = "yielded" THEN mstream.n ELSE 0,
            !.sets = @ + 1]

StreamNext ==
    \/ StreamBuilt
    \/ BatchBegins
    \/ StreamResumes
    \/ SetSubscriptions

StreamSpec == Init /\ [][StreamNext]_vars

----------------------------------------------------------------------------
(* The mock exchange: engine.py:26-124 and server.py:9-12.  Every POST      *)
(* /orders is one call of place_order on the module's engine.  The orders   *)
(* name one symbol: the books of different symbols never meet               *)
(* (engine.py:50, 89).  An order's id is its number in the sequence of      *)
(* posts, and so is its timestamp.  self.trades, which only grows, is left  *)
(* out.                                                                     *)

beyondEngine == <<sessionVars, storeVars, tokenVars, sessions, earlierVars,
                  mgr, upstox, mstream>>

\* engine.py:13: qty is any int; pydantic accepts 0 and negative numbers
Quantities == {-1, 0, 1, 2}

\* engine.py:15: limit_price
LimitPrices == {1, 2}

\* engine.py:6-8
OrderSide == {"BUY", "SELL"}

\* engine.py:54 and 92: the sort keys, (limit_price, timestamp) for asks and
\* (-limit_price, timestamp) for bids
Ahead(a, b, book) ==
    IF a.limit_price # b.limit_price
    THEN IF book = "asks" THEN a.limit_price < b.limit_price
                          ELSE a.limit_price > b.limit_price
    ELSE a.timestamp < b.timestamp

RECURSIVE Placed(_, _, _)
Placed(o, sorted, book) ==
    IF sorted = <<>> THEN <<o>>
    ELSE IF Ahead(o, Head(sorted), book) THEN <<o>> \o sorted
    ELSE <<Head(sorted)>> \o Placed(o, Tail(sorted), book)

\* list.sort(key=...), engine.py:54 and 92
RECURSIVE sort(_, _)
sort(list, book) ==
    IF list = <<>> THEN <<>>
    ELSE Placed(Head(list), sort(Tail(list), book), book)

\* engine.py:60-61 and 98-99: the best resting order is beyond the limit
NoMatch(side, best, limit_price) ==
    IF side = "BUY" THEN best.limit_price > limit_price
                    ELSE best.limit_price < limit_price

trade_qty_all(remaining_qty, resting) == remaining_qty

\* engine.py:63 and 101
trade_qty(remaining_qty, resting) ==
    IF remaining_qty < resting THEN remaining_qty ELSE resting

\* engine.py:66-73 and 104-111
Trade(order, best, qty) ==
    [qty |-> qty, price |-> best.limit_price,
     buy_order_id |-> IF order.side = "BUY" THEN order.id ELSE best.id,
     sell_order_id |-> IF order.side = "BUY" THEN best.id ELSE order.id]

\* the while loops of _match_buy and _match_sell, engine.py:58-79 and
\* 96-117, over the sorted opposite list
RECURSIVE Matched(_, _, _, _)
Matched(order, opposite, remaining_qty, so_far) ==
    IF remaining_qty > 0 /\ opposite # <<>>
       /\ ~NoMatch(order.side, opposite[1], order.limit_price)
    THEN LET qty == trade_qty(remaining_qty, opposite[1].qty)
             best == [opposite[1] EXCEPT !.qty = @ - qty]
         IN  Matched(order,
                     IF best.qty = 0 THEN Tail(opposite)
                                     ELSE <<best>> \o Tail(opposite),
                     remaining_qty - qty,
                     Append(so_far, Trade(order, opposite[1], qty)))
    ELSE [opposite |-> opposite, remaining_qty |-> remaining_qty,
          trades |-> so_far]

\* engine.py:81-83 and 119-121
Rested(own, order, remaining_qty) ==
    IF remaining_qty > 0
    THEN Append(own, [order EXCEPT !.qty = remaining_qty])
    ELSE own

\* POST /orders, server.py:9-12, and place_order, engine.py:33-47
create_order ==
    /\ engine.placed < MaxOrders
    /\ \E qty \in Quantities, side \in OrderSide, limit_price \in LimitPrices :
          LET id == engine.placed + 1
              order == [id |-> id, qty |-> qty, side |-> side,
                        limit_price |-> limit_price, timestamp |-> id]
              m == IF side = "BUY"
                   THEN Matched(order, sort(engine.asks, "asks"), qty, <<>>)
                   ELSE Matched(order, sort(engine.bids, "bids"), qty, <<>>)
          IN  engine' =
                  [bids |-> IF side = "BUY"
                            THEN Rested(engine.bids, order, m.remaining_qty)
                            ELSE m.opposite,
                   asks |-> IF side = "BUY"
                            THEN m.opposite
                            ELSE Rested(engine.asks, order, m.remaining_qty),
                   placed |-> id,
                   order |-> [id |-> id, qty |-> qty, side |-> side,
                              limit_price |-> limit_price],
                   fills |-> m.trades,
                   met_bids |-> engine.bids, met_asks |-> engine.asks]
    /\ UNCHANGED beyondEngine

ExchangeNext == create_order

ExchangeSpec == Init /\ [][ExchangeNext]_vars

----------------------------------------------------------------------------
(* Properties *)

IsUpdate(msg) == msg.action = "universe"

UpdateIdx(w) == {i \in 1..Len(w) : IsUpdate(w[i])}

\* j is the update sent right after update i on the session
NextOnSession(w, i, j) ==
    /\ i < j /\ IsUpdate(w[i]) /\ IsUpdate(w[j])
    /\ \A k \in (i + 1)..(j - 1) : ~IsUpdate(w[k])

\* j is the update the manager of update i sent right after it
NextOfManager(w, i, j) ==
    /\ i < j /\ IsUpdate(w[i]) /\ IsUpdate(w[j])
    /\ w[i].by # 0 /\ w[i].by = w[j].by
    /\ \A k \in (i + 1)..(j - 1) : ~(IsUpdate(w[k]) /\ w[k].by = w[i].by)

Evolves(prev, upd) ==
    SeqToSet(upd.universe)
        = (SeqToSet(prev.universe) \cup SeqToSet(upd.added)) \ SeqToSet(upd.removed)

UpdatesBy(w, m) == Cardinality({i \in UpdateIdx(w) : w[i].by = m})

\* manager m calls set_subscriptions or sends an update in this step
ManagerWrites(m) ==
    \/ managers'[m].current # managers[m].current
    \/ UpdatesBy(wire', m) # UpdatesBy(wire, m)

\* this step is the reader consuming a frame
Consumes == nframes' = nframes + 1

\* C1 as stated: over all the UniverseUpdates of a session in send order
\* (static-subscribe updates and those of every manager), each update after
\* the first has universe = (previous universe UNION added) MINUS removed.
C1_SessionDeltas ==
    \A i, j \in 1..Len(wire) :
        NextOnSession(wire, i, j) => Evolves(wire[i], wire[j])

\* C1 amended: over the UniverseUpdates sent by one universe manager, each
\* update after that manager's first has universe = (that manager's previous
\* universe UNION added) MINUS removed.
C1_ManagerDeltas ==
    \A i, j \in 1..Len(wire) :
        NextOfManager(wire, i, j) => Evolves(wire[i], wire[j])

C1_Witness ==
    \E i, j \in 1..Len(wire) :
        NextOfManager(wire, i, j) /\ wire[j].removed # <<>>

\* C2 as stated: when a manager has finished processing an update (its
\* send_json has returned), the provider's subscription list is that
\* update's universe.
C2_SubscriptionsEqualUniverse ==
    [][\A m \in 1..Len(managers) :
          (managers[m].pc = "sending" /\ managers'[m].pc = "sleeping")
              => subs' = SortedSet(managers'[m].current)]_vars

C4_StaticStopsManager ==
    [][\A m \in superseded.static : managers'[m].current = managers[m].current]_vars

\* C5: at most one universe manager task is active at any time.
C5_OneActiveManager ==
    Cardinality({m \in 1..Len(managers) : Active(managers[m])}) <= 1

C5_Witness ==
    /\ Len(managers) = 2
    /\ managers[1].pc = "cancelled"
    /\ Active(managers[2])

\* C6: in every UniverseUpdate sent, of either reason, every added symbol is
\* in universe and no removed symbol is.
C6_DeltaInsideUniverse ==
    \A i \in UpdateIdx(wire) :
        /\ SeqToSet(wire[i].added) \subseteq SeqToSet(wire[i].universe)
        /\ SeqToSet(wire[i].removed) \cap SeqToSet(wire[i].universe) = {}

C6_Witness ==
    \E i \in UpdateIdx(wire) :
        /\ wire[i].reason = "filter_refresh"
        /\ wire[i].removed # <<>>
        /\ wire[i].universe # <<>>

\* C7 as stated: no two consecutive UniverseUpdates of a session carry the
\* same universe.
C7_SessionUpdatesDiffer ==
    \A i, j \in 1..Len(wire) :
        NextOnSession(wire, i, j) => wire[i].universe # wire[j].universe

\* C7 amended: no two consecutive UniverseUpdates of one universe manager
\* carry the same universe; a manager sends an update only when its set
\* changed.
C7_ManagerUpdatesDiffer ==
    \A i, j \in 1..Len(wire) :
        NextOfManager(wire, i, j) => wire[i].universe # wire[j].universe

C7_Witness ==
    \E i, j \in 1..Len(wire) :
        NextOfManager(wire, i, j) /\ wire[j].added = <<>>

\* the order payload of a frame, read from the frame itself
Payload(f) == IF f.data # None THEN f.data[1] ELSE f.flat[1]

ValidOrderFrame(f) ==
    /\ f.kind = "order"
    /\ f.data # None \/ f.flat # None
    /\ Payload(f).side \in {"BUY", "SELL"}
    /\ Payload(f).type \in {"MARKET", "LIMIT"}

\* the paper_trade flag the protocol prescribes: true before any configure,
\* else what the most recent configure said (true when it said nothing)
PrescribedPaper == lastConfigure # "false"

Persisted(p) ==
    /\ Len(orders') = Len(orders) + 1
    /\ SubSeq(orders', 1, Len(orders)) = orders
    /\ Len(trades') = Len(trades) + 1
    /\ SubSeq(trades', 1, Len(trades)) = trades
    /\ LET o == orders'[Len(orders')]
           t == trades'[Len(trades')]
       IN /\ o.symbol = p.symbol /\ o.qty = p.qty /\ o.side = p.side
          /\ t.symbol = p.symbol /\ t.qty = p.qty /\ t.order_id = o.id

\* C8: an order with a valid payload adds exactly one orders row and one
\* trades row if the prescribed paper_trade flag is true, and nothing
\* otherwise.
C8_PersistIffPaper ==
    [][(Consumes /\ ValidOrderFrame(lastFrame'))
          => IF PrescribedPaper
             THEN Persisted(Payload(lastFrame'))
             ELSE UNCHANGED <<orders, trades>>]_vars

C8_Witness ==
    /\ ValidOrderFrame(lastFrame)
    /\ lastConfigure = "false"
    /\ is_paper_trading = FALSE
    /\ orders = <<>> /\ trades = <<>>

\* a frame that parses as JSON and is malformed
Malformed(f) ==
    \/ f.kind = "nonobject"
    \/ f.kind = "configure" /\ f.shape = "v2" /\ f.filter = "bad"
    \/ f.kind = "order" /\ (f.data # None \/ f.flat # None) /\ ~ValidOrderFrame(f)

\* C9 as stated: a malformed frame that parses as JSON is dropped: nothing is
\* sent, the session stays open and its tasks keep running.
C9_MalformedDropped ==
    [][(Consumes /\ Malformed(lastFrame'))
          => /\ wire' = wire
             /\ reader' = "recv"
             /\ tick_task' = tick_task
             /\ managers' = managers]_vars

\* C10: a frame that is not valid JSON, or whose action is neither configure
\* nor order, changes no session state, sends nothing, and leaves the reader
\* waiting for the next frame.
C10_IgnoredFrame ==
    [][(Consumes /\ lastFrame'.kind \in {"badjson", "unknown"})
          => /\ UNCHANGED <<is_paper_trading, protocol_version, subs, universe_task,
                            managers, tick_task, batch, orders, trades, wire>>
             /\ reader' = "recv"]_vars

C10_Witness ==
    /\ lastFrame.kind \in {"badjson", "unknown"}
    /\ nframes > 1
    /\ reader = "recv"
    /\ tick_task # "none"
    /\ universe_task # 0

IsTick(msg) == msg.action \in {"tick", "bare"}

\* the frame is a configure with a subscribe list and no filter
StaticConfigure(f) ==
    f.kind = "configure" /\ f.filter = "none" /\ f.subscribe # None

\* C11 as stated: a configure with a subscribe list (any list) and no filter
\* replaces the provider's subscriptions by that list and, iff the session's
\* protocol_version is at least 2, sends exactly one UniverseUpdate with
\* added = universe = the list, removed = [] and reason "static_subscribe".
C11_StaticSubscribe ==
    [][(Consumes /\ StaticConfigure(lastFrame'))
          => LET symbols == lastFrame'.subscribe[1] IN
             /\ subs' = symbols
             /\ IF protocol_version' >= 2
                THEN /\ Len(wire') = Len(wire) + 1
                     /\ SubSeq(wire', 1, Len(wire)) = wire
                     /\ LET u == wire'[Len(wire')] IN
                        /\ u.action = "universe"
                        /\ u.added = symbols /\ u.removed = <<>>
                        /\ u.universe = symbols
                        /\ u.reason = "static_subscribe"
                ELSE wire' = wire]_vars

\* C12: a tick is sent wrapped as {action: "tick", data: Tick} exactly when
\* the session's protocol_version, as the latest configure left it, is at
\* least 2 when the tick is sent, and bare otherwise.
C12_TickShape ==
    [][\A i \in 1..Len(wire') :
          (i > Len(wire) /\ IsTick(wire'[i]))
              => (wire'[i].action = "tick" <=> protocol_version >= 2)]_vars

\* a bare tick sent after a static snapshot, which only version 2 sends: the
\* version went from 2 to 1 before the tick
C12_Witness ==
    \E i, j \in 1..Len(wire) :
        /\ i < j
        /\ IsUpdate(wire[i]) /\ wire[i].reason = "static_subscribe"
        /\ wire[j].action = "bare"

TaskOver(pc) == pc \notin {"created", "sending", "sleeping"}

\* C14: when the reader loop has ended, the tick pump and every universe
\* manager of the session are over, and from then on nothing is sent and the
\* provider's subscription list is not written.
C14_SilentAfterTeardown ==
    [][/\ reader' = "closed"
            => /\ tick_task' = "none" \/ TaskOver(tick_task')
               /\ \A m \in 1..Len(managers') : TaskOver(managers'[m].pc)
       /\ reader = "closed" => UNCHANGED <<wire, subs>>]_vars

C14_Witness ==
    /\ reader = "closed"
    /\ tick_task = "cancelled"
    /\ universe_task # 0
    /\ managers[universe_task].pc = "cancelled"
    /\ UpdatesBy(wire, universe_task) > 0
    /\ TicksSent(wire) > 0

\* C13: the ticks of a session are on the wire in the order the stream
\* yielded them (the order of their timestamps), none twice, whatever
\* configure messages arrive in between.
C13_TickOrder ==
    \A i, j \in 1..Len(wire) :
        (i < j /\ IsTick(wire[i]) /\ IsTick(wire[j]))
            => wire[i].timestamp < wire[j].timestamp

C13_Witness ==
    /\ TicksSent(wire) = 3
    /\ \E i, j, k \in 1..Len(wire) :
          /\ i < j /\ j < k
          /\ IsTick(wire[i]) /\ IsUpdate(wire[j]) /\ IsTick(wire[k])
          /\ wire[i].action # wire[k].action

\* some task of the session has ended on an exception
TaskFailed ==
    \/ tick_task = "failed"
    \/ \E m \in 1..Len(managers) : managers[m].pc = "failed"

\* C15 as stated: once the tick pump or a universe manager has failed, the
\* session does nothing more than tear down: the next step ends the reader
\* loop and leaves every task over.
C15_FailureEndsSession ==
    [][(TaskFailed /\ reader # "closed")
          => /\ reader' = "closed"
             /\ tick_task' = "none" \/ TaskOver(tick_task')
             /\ \A m \in 1..Len(managers') : TaskOver(managers'[m].pc)]_vars

\* C18: in every state of the store the trades rows and the orders rows
\* correspond one to one: each trade's order_id is the id of exactly one
\* order, which has its symbol and qty, and each order has exactly one trade;
\* also with several writers and after a call failed half way.
C18_TradesMatchOrders ==
    /\ \A t \in 1..Len(trades) :
          /\ Cardinality({o \in 1..Len(orders) :
                             orders[o].id = trades[t].order_id}) = 1
          /\ \A o \in 1..Len(orders) :
                orders[o].id = trades[t].order_id
                    => /\ orders[o].symbol = trades[t].symbol
                       /\ orders[o].qty = trades[t].qty
    /\ \A o \in 1..Len(orders) :
          Cardinality({t \in 1..Len(trades) :
                          trades[t].order_id = orders[o].id}) = 1

C18_Witness ==
    /\ Len(orders) = 2 /\ Len(trades) = 2
    /\ orders[1].qty # orders[2].qty
    /\ \E v, w \in Writers :
          /\ conns[v].last = "rolled_back"
          /\ conns[w].last = "committed"
          /\ InWrite(conns[v])

\* C19: each order id execute_order returns is greater than every id it
\* returned before, whichever writer made the call.
C19_IdsIncrease ==
    \A i, j \in 1..Len(returned) : i < j => returned[i] < returned[j]

C19_Witness ==
    /\ Len(returned) = 3
    /\ \E v, w \in Writers :
          /\ v # w
          /\ conns[v].last = "busy"
          /\ conns[w].last = "committed"

\* C16 as stated: a session whose provider.connect() failed has been sent an
\* error frame and has processed no frame of its client.
C16_ConnectFailureErrorFrame ==
    \A c \in Clients :
        sessions[c].stage = "crashed"
            => /\ \E i \in 1..Len(sessions[c].sent) :
                     sessions[c].sent[i].action = "error"
               /\ sessions[c].served = 0

\* C17 as stated: a session that has ended has no open provider HTTP client.
C17_ClientReleased ==
    \A c \in Clients :
        sessions[c].stage \in {"ended", "crashed"} => sessions[c].client # "open"

\* C20 as stated: after save(token, expires_in = N) at time T, and until the
\* next save, a get at a time t < T + N returns that token and a get at a
\* time t > T + N returns nothing; for every N >= 0.
C20_TokenFreshness ==
    (/\ got # Unset
     /\ saved # None
     /\ saved[1].expires_in # None)
        => LET deadline == saved[1].at + 2 * saved[1].expires_in[1] IN
           /\ now < deadline => got = Some(saved[1].access_token)
           /\ now > deadline => got = None

----------------------------------------------------------------------------
(* OAuth callback *)

\* C21: a callback exchanges the code, and so saves a token, only when it
\* carries a state issued less than 600 seconds earlier that no earlier
\* callback used; a callback with a missing, unknown, expired or used state
\* does neither.
C21_StateValidated ==
    \A i \in 1..Len(callbacks) : callbacks[i].good

----------------------------------------------------------------------------
(* Polling providers *)

\* C22: between two consecutive quote requests the Kotak loop sleeps one
\* second (two half seconds), whatever the outcome of the first of them.
C22_OneRequestPerSecond ==
    [][(poll.kind = "kotak" /\ poll.requests > 0
            /\ poll'.requests = poll.requests + 1)
          => poll.since >= 2]_vars

\* a step in which a poll fails: the request ends with a status other than
\* 200 or with an exception, or an item of the answer does not parse
PollFails == poll.outcome \notin FailedPolls /\ poll'.outcome \in FailedPolls

\* C23: a failed quote poll ends neither the stream nor the pump: the loop goes
\* to its sleep, from which it polls again.
C23_FailedPollSleeps ==
    [][PollFails => (poll'.pc = "sleeping" /\ poll'.kind = poll.kind
                        /\ poll'.subscribed = poll.subscribed)]_vars

\* after a failed poll a later poll has delivered a tick to the client
C23_Witness == poll.failed /\ poll.delivered = 1

----------------------------------------------------------------------------
(* Universe resolver *)

\* resolve has been called with conditions on a provider that gives snapshots
Filtering ==
    /\ resolved.loop # "none"
    /\ resolved.called
    /\ resolved.spec.conditions # <<>>
    /\ resolved.supports

\* the condition holds on the row: the row has the field and the value
\* compares to the target as the operator says
Holds(row, cond) ==
    /\ cond.field \in DOMAIN row
    /\ CASE cond.op = "gt" -> row[cond.field] > cond.value
         [] cond.op = "gte" -> row[cond.field] >= cond.value
         [] cond.op = "lt" -> row[cond.field] < cond.value
         [] cond.op = "lte" -> row[cond.field] <= cond.value
         [] cond.op = "in" ->
               \E i \in 1..Len(cond.value) : cond.value[i] = row[cond.field]
         [] cond.op = "between" ->
               /\ Len(cond.value) = 2
               /\ cond.value[1] <= row[cond.field]
               /\ row[cond.field] <= cond.value[2]
         [] OTHER -> FALSE

\* the candidate has a row on which every condition holds
Matches(sym) ==
    /\ sym \in DOMAIN resolved.snap
    /\ \A i \in 1..Len(resolved.spec.conditions) :
          Holds(resolved.snap[sym], resolved.spec.conditions[i])

\* C24: with conditions and a provider that gives snapshots, resolve returns
\* the first max_symbols of the candidates that have a row on which every
\* condition holds, in candidate order.
C24_FilteredPrefix ==
    (Filtering /\ resolved.spec.max_symbols >= 0)
        => resolved.outcome =
              Returned(Prefix(SelectSeq(candidates(resolved.spec), Matches),
                              resolved.spec.max_symbols))

\* the list is the first elements of base
IsPrefix(list, base) ==
    /\ Len(list) <= Len(base)
    /\ \A i \in 1..Len(list) : list[i] = base[i]

\* C25: without conditions, or on a provider without snapshot, resolve returns
\* the first max_symbols candidates unfiltered, and the manager's loop goes on.
C25_UnfilteredPrefix ==
    (resolved.loop # "none" /\ resolved.called /\ ~Filtering)
        => LET base == candidates(resolved.spec)
               n == resolved.spec.max_symbols
           IN /\ resolved.outcome.kind = "returned"
              /\ IsPrefix(resolved.outcome.list, base)
              /\ n >= 0 =>
                    Len(resolved.outcome.list) =
                        (IF n < Len(base) THEN n ELSE Len(base))
              /\ resolved.loop = "running"

\* a provider without snapshot was asked for a spec with conditions and the
\* list was cut to max_symbols
C25_Witness ==
    /\ resolved.loop = "running"
    /\ resolved.called
    /\ ~resolved.supports
    /\ resolved.spec.conditions # <<>>
    /\ resolved.spec.max_symbols = 1
    /\ Len(candidates(resolved.spec)) = 2
    /\ resolved.outcome = Returned(<<"nse_cm|111">>)

\* C26: every value and target that reach _passes from a snapshot row and a
\* condition of the client give a boolean, never an exception, and the
\* boolean is the one the operator means.
C26_PassesTotal ==
    Filtering =>
        \A k \in 1..Len(candidates(resolved.spec)) :
            LET sym == candidates(resolved.spec)[k]
                conds == resolved.spec.conditions
            IN sym \in DOMAIN resolved.snap =>
                  \A i \in 1..Len(conds) :
                      conds[i].field \in DOMAIN resolved.snap[sym] =>
                          LET v == resolved.snap[sym][conds[i].field]
                          IN /\ ~PassesRaises(v, conds[i].op, conds[i].value)
                             /\ _passes(v, conds[i].op, conds[i].value)
                                   = Holds(resolved.snap[sym], conds[i])

----------------------------------------------------------------------------
(* Shapes of configure *)

\* this step consumes a configure in the v1 shape
ConsumesFlatConfigure ==
    /\ nframes' = nframes + 1
    /\ lastFrame'.kind = "configure"
    /\ lastFrame'.shape = "v1"

\* this step leaves the session as the configure g in the v2 shape would:
\* its paper_trade, protocol_version, provider subscriptions and universe
\* manager
ConfiguredAsBy(g) ==
    LET c == ConfigFields(g)
    IN /\ g.shape = "v2"
       /\ is_paper_trading' = c.paper
       /\ protocol_version' = c.pv
       /\ subs' = (IF ~FilterTruthy(c.filter) /\ SubscribeTruthy(c.subscribe)
                   THEN c.subscribe[1] ELSE subs)
       /\ IF FilterTruthy(c.filter) /\ FilterValid(c.filter)
          THEN /\ universe_task' = Len(managers) + 1
               /\ Len(managers') = Len(managers) + 1
               /\ managers'[universe_task'].spec = c.filter
          ELSE /\ universe_task' = universe_task
               /\ managers' = managers

\* C27: a configure in the v1 shape has the effect of the v2-shape configure
\* that carries the same fields under data.
C27_ShapesAgree ==
    [][ConsumesFlatConfigure
          => ConfiguredAsBy([lastFrame' EXCEPT !.shape = "v2"])]_vars

\* C27 as the code has it: a configure in the v1 shape has the effect of the
\* v2-shape configure that carries its paper_trade and subscribe under data,
\* with protocol_version 1 and no filter.
C27_FlatAsPlainV2 ==
    [][ConsumesFlatConfigure
          => ConfiguredAsBy([lastFrame' EXCEPT !.shape = "v2", !.pv = 1,
                                               !.filter = "none"])]_vars

\* a v1-shape configure naming protocol_version 2 and a subscribe list has
\* replaced the subscriptions of an earlier configure and left the session on
\* protocol version 1
C27_Witness ==
    /\ nframes = 2
    /\ lastFrame.kind = "configure"
    /\ lastFrame.shape = "v1"
    /\ lastFrame.pv = 2
    /\ lastFrame.subscribe = Some(<<"MOCK">>)
    /\ protocol_version = 1
    /\ subs = <<"MOCK">>
    /\ \E i \in 1..Len(wire) : IsUpdate(wire[i]) /\ wire[i].universe = <<"MOCK", "AAA">>

----------------------------------------------------------------------------
(* Mock reproducibility *)

Unstamped(tick) ==
    [symbol |-> tick.symbol, price |-> tick.price, volume |-> tick.volume,
     provider |-> tick.provider]

UnstampedTicks(ticks) == [i \in 1..Len(ticks) |-> Unstamped(ticks[i])]

----------------------------------------------------------------------------
(* Ticks after a static subscribe *)

\* the latest step consumed the configure f as frame number n and put its
\* static snapshot last on the wire, with two more ticks inside the bound of
\* the run
JustConfigured(f, n) ==
    /\ lastFrame = f
    /\ nframes = n
    /\ Len(wire) > 0
    /\ IsUpdate(wire[Len(wire)])
    /\ TicksSent(wire) + 2 <= MaxPumpTicks

\* a {action: "tick"} message of the Mock provider for one of the symbols
\* has been sent after the latest snapshot
TickOfSince(symbols) ==
    \E i \in UpdateIdx(wire) :
        /\ \A k \in UpdateIdx(wire) : k <= i
        /\ \E j \in (i + 1)..Len(wire) :
            /\ wire[j].action = "tick"
            /\ wire[j].provider = "mock"
            /\ wire[j].symbol \in SeqToSet(symbols)

\* the configures of the clients that name protocol_version 2
V2Configures == {f \in LiveFrames : f.pv = 2}

----------------------------------------------------------------------------
(* The interval table *)

\* the rows of the table for the plain inputs, each input with its output
PlainRows ==
    {<<None, <<"1">> \o minute>>, <<Some(<<>>), <<"1">> \o minute>>}
    \cup {<<Some(n \o <<"m">>), n \o minute>> : n \in Numerals(MaxDigits)}
    \cup {<<Some(n \o <<"h">>), n \o hour>> : n \in Numerals(MaxDigits)}
    \cup {<<Some(<<"1", "d">>), day>>}
    \cup {<<Some(n \o <<"d">>), n \o day>> :
              n \in Numerals(MaxDigits) \ {<<"1">>}}
    \cup {<<Some(w), w>> : w \in {day, week, month}}

\* the row of the compound inputs: unit/N is normalized as N and the first
\* letter of the unit are
CompoundRows ==
    UNION {{<<Some(u \o <<"/">> \o n), row[2]>> :
                row \in {r \in PlainRows : r[1] = Some(n \o <<u[1]>>)}} :
           u \in Units \ {<<>>}, n \in Numerals(MaxDigits)}

\* the historical call being served has made its segment of the input of a
\* row
Normalized(row) == backtest.pc # "idle" /\ backtest.interval = row[1]

----------------------------------------------------------------------------
(* stop() of the universe manager *)

\* C31: after stop() the manager makes no further set_subscriptions call and
\* sends no further update, whichever point of the iteration it was at.
C31_SilentAfterStop == mgr.late = 0

\* C32: after stop() run() terminates, and it begins no iteration after the
\* one in progress, resolve, set_subscriptions and send_json returning.
C32_StopTerminates ==
    /\ [](~mgr.again)
    /\ (mgr.stopped ~> mgr.pc \in {"done", "failed"})

\* stop() was called while the manager was sending and run() has ended
C32_Witness == mgr.stopped /\ mgr.at = "sending" /\ mgr.pc = "done"

----------------------------------------------------------------------------
(* The tick pump after a configure *)

\* this step ends the handling of a configure: the reader consumed it and is
\* back at its receive, at once or when the send of the static snapshot
\* returns
ConfigureProcessed ==
    /\ reader' = "recv"
    /\ \/ Consumes /\ lastFrame'.kind = "configure"
       \/ reader = "static_send"

\* C33: a tick pump is running after every processed configure: one is
\* started when none was started yet or the one started earlier has ended.
C33_PumpAfterConfigure ==
    [][ConfigureProcessed => ~TaskOver(tick_task')]_vars

----------------------------------------------------------------------------
(* The token of the Upstox provider *)

\* connect() has returned on a provider with a token store
ConnectedWithStore == upstox.pc = "connected" /\ upstox.store

\* the valid token the store held when connect() began, None without a store
HeldAtConnect ==
    IF upstox.store THEN get_valid_upstox_token(upstox.table, upstox.began)
    ELSE None

\* C34: after a successful connect() with a token store attached, the store's
\* get_valid_upstox_token returns the provider's access token, whichever
\* path supplied it.
C34_TokenPersisted ==
    ConnectedWithStore => upstox.readback = Some(upstox.access_token)

\* C34 as the code has it: the same, except that an explicit token leaves a
\* valid token of the store in place.
C34_TokenPersistedOrKept ==
    ConnectedWithStore =>
        IF upstox.path = "explicit" /\ HeldAtConnect # None
        THEN upstox.readback = HeldAtConnect
        ELSE upstox.readback = Some(upstox.access_token)

\* an explicit token was written to a store whose token had expired
C34_Witness ==
    /\ ConnectedWithStore
    /\ upstox.path = "explicit"
    /\ upstox.table # None
    /\ HeldAtConnect = None
    /\ upstox.readback = Some("token-1")

----------------------------------------------------------------------------
(* The batches of the Mock stream *)

\* the batches that are over
BatchesOver ==
    {b \in 1..mstream.n : b < mstream.n \/ mstream.pc = "sleeping"}

\* the symbols of the ticks of batch b, in the order of their yield
RECURSIVE SymbolsOf(_, _)
SymbolsOf(out, b) ==
    IF out = <<>> THEN <<>>
    ELSE IF Head(out).batch = b THEN <<Head(out).symbol>> \o SymbolsOf(Tail(out), b)
    ELSE SymbolsOf(Tail(out), b)

\* C36: in each interval the Mock stream emits exactly one tick per
\* subscribed symbol, in ascending sorted order, for every subscription list
\* the provider can be given.
C36_OneTickPerSymbol ==
    \A b \in BatchesOver :
        SymbolsOf(mstream.out, b) = SortedSet(SeqToSet(mstream.begun[b]))

\* C39: after set_subscriptions(S) has returned, a tick for a symbol outside
\* S belongs to the batch that was in progress at the call, and every batch
\* begun afterwards has exactly the symbols of S.
C39_StaleWithinBatch ==
    /\ \A i \in 1..Len(mstream.out) :
          mstream.out[i].stale => mstream.out[i].carried
    /\ \A b \in BatchesOver :
          SeqToSet(SymbolsOf(mstream.out, b)) = SeqToSet(mstream.begun[b])

\* a tick of a symbol that had been removed was yielded, and the next batch
\* is over
C39_Witness ==
    /\ \E i \in 1..Len(mstream.out) :
          mstream.out[i].stale /\ mstream.out[i].batch < mstream.n
    /\ mstream.pc = "sleeping"

----------------------------------------------------------------------------
(* The quantities of the matching engine *)

RECURSIVE TotalQty(_)
TotalQty(list) ==
    IF list = <<>> THEN 0 ELSE Head(list).qty + TotalQty(Tail(list))

\* the list the latest order rests in, and the opposite list before and
\* after it
OwnList == IF engine.order.side = "BUY" THEN engine.bids ELSE engine.asks

OppositeMet ==
    IF engine.order.side = "BUY" THEN engine.met_asks ELSE engine.met_bids

OppositeList == IF engine.order.side = "BUY" THEN engine.asks ELSE engine.bids

\* the resting order a trade of the latest order was made with
Against(t) ==
    IF engine.order.side = "BUY" THEN t.sell_order_id ELSE t.buy_order_id

WithId(list, id) == SelectSeq(list, LAMBDA o : o.id = id)

BetterPriced(a, b) ==
    IF engine.order.side = "BUY" THEN a.limit_price < b.limit_price
                                 ELSE a.limit_price > b.limit_price

\* the returned trades and what rests of the order sum to its quantity
Conserved ==
    TotalQty(engine.fills) + TotalQty(WithId(OwnList, engine.order.id))
        = engine.order.qty

\* each trade is made with a resting order of the book the order met, no
\* resting order not yet traded with is better priced, and it takes the
\* smaller of what is left of the order and the resting quantity
TradesTakeMin ==
    \A i \in 1..Len(engine.fills) :
        LET t == engine.fills[i]
            left == engine.order.qty - TotalQty(SubSeq(engine.fills, 1, i - 1))
            taken == {Against(engine.fills[j]) : j \in 1..(i - 1)}
        IN  \E k \in 1..Len(OppositeMet) :
               /\ OppositeMet[k].id = Against(t)
               /\ t.qty = IF left < OppositeMet[k].qty
                          THEN left ELSE OppositeMet[k].qty
               /\ \A l \in 1..Len(OppositeMet) :
                     OppositeMet[l].id \notin taken
                         => ~BetterPriced(OppositeMet[l], OppositeMet[k])

\* a resting order whose whole quantity was traded is no longer in the book
FilledRemoved ==
    \A k \in 1..Len(OppositeMet) :
        TotalQty(SelectSeq(engine.fills,
                           LAMBDA t : Against(t) = OppositeMet[k].id))
            = OppositeMet[k].qty
        => WithId(OppositeList, OppositeMet[k].id) = <<>>

RestingPositive ==
    /\ \A k \in 1..Len(engine.bids) : engine.bids[k].qty > 0
    /\ \A k \in 1..Len(engine.asks) : engine.asks[k].qty > 0

\* C37 as stated: place_order conserves the quantity of every incoming
\* order: the quantities of the returned trades plus what rests of the order
\* sum to its quantity; each trade takes min(remaining, resting) from the
\* best-priced opposite order; a resting order that reaches 0 is removed;
\* every resting order has a quantity greater than 0.
C37_Conservation ==
    engine.placed > 0
        => Conserved /\ TradesTakeMin /\ FilledRemoved /\ RestingPositive

\* C37, amended: the same for an incoming order whose quantity is not
\* negative; an order of negative quantity returns no trade and leaves
\* nothing in the book.
C37_ConservationOfQuantity ==
    engine.placed > 0
        => /\ engine.order.qty >= 0 => Conserved
           /\ engine.order.qty < 0
                 => /\ engine.fills = <<>>
                    /\ WithId(OwnList, engine.order.id) = <<>>
           /\ TradesTakeMin
           /\ FilledRemoved
           /\ RestingPositive

\* an order traded with a resting order, which left the book, and the rest
\* of the order rests
C37_Witness ==
    /\ engine.placed > 0
    /\ engine.fills # <<>>
    /\ Len(OppositeList) < Len(OppositeMet)
    /\ TotalQty(WithId(OwnList, engine.order.id)) > 0

----------------------------------------------------------------------------
(* The provider's subscriptions while the manager sleeps *)

\* C38: whenever the universe manager is in its refresh sleep after an
\* iteration, the provider's subscription list equals the set the manager
\* resolved last, also when that set is empty and the provider held other
\* subscriptions before the manager started.
C38_SubscriptionsAreResolved ==
    mgr.pc = "sleeping" => SeqToSet(mgr.subs) = SeqToSet(mgr.new)

----------------------------------------------------------------------------
(* The poll loop after the pump was cancelled *)

\* C40: after the session's tick pump task was cancelled the provider's poll
\* loop has stopped: the cancellation is not swallowed by the loop's error
\* handling, no further quote request is issued and no further tick is
\* yielded.
C40_CancelStopsPolling ==
    [][poll.cancel => /\ poll.pc = "cancelled"
                      /\ poll'.pc = "cancelled"
                      /\ poll'.requests = poll.requests
                      /\ poll'.pending = poll.pending]_vars

\* the pump was cancelled while a quote request was under way
C40_Witness ==
    /\ poll.cancel
    /\ poll.pc = "cancelled"
    /\ poll.requests > 0
    /\ poll.outcome = "none"

====
